---- MODULE Spec2Model ----
(***************************************************************************)
(* Model of the citation dashboard: the useVisualizationData hook (its     *)
(* one-time load and its query functions) and the Dashboard page's         *)
(* selection state.                                                        *)
(*                                                                         *)
(* Strings whose characters the code inspects (publication dates, arXiv    *)
(* urls, months) are sequences of one-character strings.  An optional      *)
(* value (null / undefined in the code) is Null == <<>> or Some(v) ==      *)
(* <<v>>.                                                                  *)
(***************************************************************************)
EXTENDS Integers, Sequences, FiniteSets, TLC

VARIABLES
    loading,            \* useState(true)
    llmClusters,        \* Record<string, LLMCluster>, as the sequence of its entries
    psychClusters,      \* Record<string, PsychCluster>, as the sequence of its entries
    papersInfo,         \* null or the array of LLM paper metadata
    filteredPapers,     \* null or the array of LLM papers with their references
    theoryPool,         \* Record<string, ClusterTheories>, as the sequence of its entries
    secondaryClusters,  \* SecondaryClusters, as the sequence of its entries
    titleToPaperId,     \* Map<string, string>, as the sequence of its entries
    fetches,            \* the state of each promise that loadData awaits
    selectedLLMNode,    \* Dashboard useState<string | null>(null)
    selectedPsychNode,  \* Dashboard useState<string | null>(null)
    selectedTheory,     \* Dashboard useState<string | null>(null)
    result              \* the last call: a query and the value it returned, or a
                        \* Dashboard handler and the selection it was rendered with

hookVars == <<loading, llmClusters, psychClusters, papersInfo, filteredPapers,
              theoryPool, secondaryClusters, titleToPaperId, fetches>>
dashVars == <<selectedLLMNode, selectedPsychNode, selectedTheory>>
vars == <<loading, llmClusters, psychClusters, papersInfo, filteredPapers,
          theoryPool, secondaryClusters, titleToPaperId, fetches,
          selectedLLMNode, selectedPsychNode, selectedTheory, result>>

-----------------------------------------------------------------------------
(* Bounds of the model *)

NumLLMPapers == 2
NumPsychPapers == 2
NumLLMTopics == 2
NumPsychTopics == 2
MaxMonthCode == 13
MaxTheories == 4

-----------------------------------------------------------------------------
(* Optional values and characters *)

Null == <<>>
Some(v) == <<v>>
IsNull(o) == o = <<>>
Val(o) == o[1]

\* The characters of the model in ascending UTF-16 code unit order.
Alphabet ==
    <<" ", "-", ".", "/",
      "0", "1", "2", "3", "4", "5", "6", "7", "8", "9", ":",
      "A", "B", "C", "D", "E", "F", "G", "H", "I", "J", "K", "L", "M",
      "N", "O", "P", "Q", "R", "S", "T", "U", "V", "W", "X", "Y", "Z",
      "a", "b", "c", "d", "e", "f", "g", "h", "i", "j", "k", "l", "m",
      "n", "o", "p", "q", "r", "s", "t", "u", "v", "w", "x", "y", "z">>

CharRank(c) == CHOOSE i \in 1..Len(Alphabet) : Alphabet[i] = c

Digits == <<"0", "1", "2", "3", "4", "5", "6", "7", "8", "9">>
IsDigit(c) == \E i \in 1..Len(Digits) : Digits[i] = c
DigitVal(c) == (CHOOSE i \in 1..Len(Digits) : Digits[i] = c) - 1

UpperCase == <<"A", "B", "C", "D", "E", "F", "G", "H", "I", "J", "K", "L", "M",
               "N", "O", "P", "Q", "R", "S", "T", "U", "V", "W", "X", "Y", "Z">>
LowerCase == <<"a", "b", "c", "d", "e", "f", "g", "h", "i", "j", "k", "l", "m",
               "n", "o", "p", "q", "r", "s", "t", "u", "v", "w", "x", "y", "z">>

\* String.prototype.toLowerCase, one character
LowerChar(c) ==
    IF \E i \in 1..Len(UpperCase) : UpperCase[i] = c
    THEN LowerCase[CHOOSE i \in 1..Len(UpperCase) : UpperCase[i] = c]
    ELSE c

toLowerCase(s) == [i \in 1..Len(s) |-> LowerChar(s[i])]

\* s.substring(0, n)
substring0(s, n) == SubSeq(s, 1, IF n < Len(s) THEN n ELSE Len(s))

\* String(n) for a natural number n
RECURSIVE NumToStr(_)
NumToStr(n) ==
    IF n < 10 THEN <<Digits[n + 1]>>
    ELSE NumToStr(n \div 10) \o <<Digits[(n % 10) + 1]>>

\* s.padStart(2, '0')
padStart2(s) == IF Len(s) < 2 THEN <<"0">> \o s ELSE s

\* a < b in the order of Array.prototype.sort() without comparator
\* (strings compared by code units, a proper prefix first)
RECURSIVE StrLess(_, _)
StrLess(a, b) ==
    IF Len(b) = 0 THEN FALSE
    ELSE IF Len(a) = 0 THEN TRUE
    ELSE IF a[1] = b[1] THEN StrLess(Tail(a), Tail(b))
    ELSE CharRank(a[1]) < CharRank(b[1])

-----------------------------------------------------------------------------
(* inferMonthFromArxivUrl, inferMonth *)

ArxivLiteral == <<"a", "r", "x", "i", "v", ".", "o", "r", "g", "/", "a", "b", "s", "/">>

\* /arxiv\.org\/abs\/(\d{4})\.\d{4,5}(v\d+)?/i matches s starting at index i.
\* After the four digits that follow the dot, \d{4,5} and (v\d+)? consume
\* what they can and nothing comes after them, so they decide nothing.
ArxivMatchAt(s, i) ==
    LET n == Len(ArxivLiteral) IN
    /\ i + n + 8 <= Len(s)
    /\ s[i + n + 4] = "."
    /\ \A k \in 1..n : LowerChar(s[i + k - 1]) = ArxivLiteral[k]
    /\ \A k \in 0..3 : IsDigit(s[i + n + k])
    /\ \A k \in 5..8 : IsDigit(s[i + n + k])

inferMonthFromArxivUrl_MonthClamped(arxivUrl) ==
    IF IsNull(arxivUrl) \/ Len(Val(arxivUrl)) = 0 THEN Null
    ELSE
        LET s == Val(arxivUrl)
            starts == {i \in 1..Len(s) : ArxivMatchAt(s, i)}
        IN  IF starts = {} THEN Null
            ELSE
                LET i0 == CHOOSE i \in starts : \A j \in starts : i <= j
                    yymm == SubSeq(s, i0 + Len(ArxivLiteral), i0 + Len(ArxivLiteral) + 3)
                    yy == 10 * DigitVal(yymm[1]) + DigitVal(yymm[2])
                    mm == 10 * DigitVal(yymm[3]) + DigitVal(yymm[4])
                    cl == IF mm < 1 THEN 1 ELSE IF mm > 12 THEN 12 ELSE mm
                IN  Some(NumToStr(2000 + yy) \o <<"-">> \o padStart2(NumToStr(cl)))

inferMonthFromArxivUrl(arxivUrl) ==
    IF IsNull(arxivUrl) \/ Len(Val(arxivUrl)) = 0 THEN Null
    ELSE
        LET s == Val(arxivUrl)
            starts == {i \in 1..Len(s) : ArxivMatchAt(s, i)}
        IN  IF starts = {} THEN Null
            ELSE
                LET i0 == CHOOSE i \in starts : \A j \in starts : i <= j
                    yymm == SubSeq(s, i0 + Len(ArxivLiteral), i0 + Len(ArxivLiteral) + 3)
                    yy == 10 * DigitVal(yymm[1]) + DigitVal(yymm[2])
                    mm == 10 * DigitVal(yymm[3]) + DigitVal(yymm[4])
                IN  IF mm < 1 \/ mm > 12 THEN Null
                    ELSE Some(NumToStr(2000 + yy) \o <<"-">> \o padStart2(NumToStr(mm)))

\* paper is Null (undefined) or Some of a metadata record
inferMonth_UrlFirst(paper) ==
    IF IsNull(paper) THEN Null
    ELSE
        LET pub == Val(paper).publicationDate
            inferred == inferMonthFromArxivUrl(Val(paper).arxivUrl)
        IN  IF ~IsNull(inferred) THEN inferred
            ELSE IF ~IsNull(pub) /\ Len(Val(pub)) >= 7 THEN Some(substring0(Val(pub), 7))
            ELSE Null

inferMonth(paper) ==
    IF IsNull(paper) THEN inferMonthFromArxivUrl(Null)
    ELSE
        LET pub == Val(paper).publicationDate IN
        IF ~IsNull(pub) /\ Len(Val(pub)) >= 7 THEN Some(substring0(Val(pub), 7))
        ELSE
            LET inferred == inferMonthFromArxivUrl(Val(paper).arxivUrl) IN
            IF ~IsNull(inferred) THEN inferred ELSE Null

-----------------------------------------------------------------------------
(* Keys, node ids and general helpers *)

Range(s) == {s[i] : i \in 1..Len(s)}

RECURSIVE SumSeq(_)
SumSeq(s) == IF Len(s) = 0 THEN 0 ELSE s[1] + SumSeq(Tail(s))

\* the entry of a Record<string, T> (a sequence of entries) under a key
HasKey(entries, key) == \E i \in 1..Len(entries) : entries[i].key = key
Lookup(entries, key) == entries[CHOOSE i \in 1..Len(entries) : entries[i].key = key]

\* new Set(cluster.docs.map(d => d.paperId))
DocIds(cluster) == Range(cluster.docs)

ClusterWord == <<"C", "l", "u", "s", "t", "e", "r", " ">>
ClusterKey(n) == ClusterWord \o NumToStr(n)

LLMPrefix == <<"L", "L", "M", "-">>
PsychPrefix == <<"P", "s", "y", "c", "h", "-">>

\* the length of the run of digits of s that starts at index i
RECURSIVE DigitRun(_, _)
DigitRun(s, i) ==
    IF i > Len(s) \/ ~IsDigit(s[i]) THEN 0 ELSE 1 + DigitRun(s, i + 1)

\* parseInt of a non-empty sequence of digits
RECURSIVE ParseDigits(_)
ParseDigits(d) ==
    IF Len(d) = 0 THEN 0
    ELSE 10 * ParseDigits(SubSeq(d, 1, Len(d) - 1)) + DigitVal(d[Len(d)])

\* clusterName.match(/Cluster (\d+)/) ? parseInt(match[1]) : 0
getClusterNumber(clusterName) ==
    LET n == Len(ClusterWord)
        starts == {i \in 1..Len(clusterName) :
                      /\ i + n <= Len(clusterName)
                      /\ SubSeq(clusterName, i, i + n - 1) = ClusterWord
                      /\ IsDigit(clusterName[i + n])}
    IN  IF starts = {} THEN 0
        ELSE
            LET i0 == CHOOSE i \in starts : \A j \in starts : i <= j
                len == DigitRun(clusterName, i0 + n)
            IN  ParseDigits(SubSeq(clusterName, i0 + n, i0 + n + len - 1))

-----------------------------------------------------------------------------
(* getBipartiteEdges *)

\* the number of references of one paper that fall in psychPaperIds
RefsInto(paper, psychPaperIds) ==
    IF IsNull(paper.references) THEN 0
    ELSE Cardinality({i \in 1..Len(Val(paper.references)) :
                         Val(paper.references)[i] \in psychPaperIds})

\* the inner papers.forEach of getBipartiteEdges and getTheoryDistribution
citationCount_AnyPaper(papers, llmPaperIds, psychPaperIds) ==
    SumSeq([i \in 1..Len(papers) |-> RefsInto(papers[i], psychPaperIds)])

citationCount(papers, llmPaperIds, psychPaperIds) ==
    SumSeq([i \in 1..Len(papers) |->
               IF papers[i].paperId \in llmPaperIds
               THEN RefsInto(papers[i], psychPaperIds)
               ELSE 0])

RECURSIVE FlattenSeq(_)
FlattenSeq(ss) == IF Len(ss) = 0 THEN <<>> ELSE ss[1] \o FlattenSeq(Tail(ss))

getBipartiteEdges_Threshold ==
    IF IsNull(filteredPapers) THEN <<>>
    ELSE
        LET papers == Val(filteredPapers)
            edge(l, p) ==
                LET w == citationCount(papers, DocIds(llmClusters[l]), DocIds(psychClusters[p]))
                IN  IF w > 1
                    THEN <<[source |-> LLMPrefix \o llmClusters[l].key,
                            target |-> PsychPrefix \o psychClusters[p].key,
                            weight |-> w]>>
                    ELSE <<>>
        IN  FlattenSeq([l \in 1..Len(llmClusters) |->
                FlattenSeq([p \in 1..Len(psychClusters) |-> edge(l, p)])])

getBipartiteEdges ==
    IF IsNull(filteredPapers) THEN <<>>
    ELSE
        LET papers == Val(filteredPapers)
            edge(l, p) ==
                LET w == citationCount(papers, DocIds(llmClusters[l]), DocIds(psychClusters[p]))
                IN  IF w > 0
                    THEN <<[source |-> LLMPrefix \o llmClusters[l].key,
                            target |-> PsychPrefix \o psychClusters[p].key,
                            weight |-> w]>>
                    ELSE <<>>
        IN  FlattenSeq([l \in 1..Len(llmClusters) |->
                FlattenSeq([p \in 1..Len(psychClusters) |-> edge(l, p)])])

-----------------------------------------------------------------------------
(* Cumulative series: the monthCounts object, its sorted keys, the running sum *)

\* A contribution is [month, n]: monthCounts[month] = (monthCounts[month] || 0) + n

\* Object.keys(monthCounts): the months in the order they were first written
RECURSIVE KeysOf(_)
KeysOf(contribs) ==
    IF Len(contribs) = 0 THEN <<>>
    ELSE
        LET r == KeysOf(SubSeq(contribs, 1, Len(contribs) - 1))
            m == contribs[Len(contribs)].month
        IN  IF m \in Range(r) THEN r ELSE Append(r, m)

\* monthCounts[month]
CountOf(contribs, month) ==
    SumSeq([i \in 1..Len(contribs) |->
               IF contribs[i].month = month THEN contribs[i].n ELSE 0])

RECURSIVE InsertSorted(_, _)
InsertSorted(x, s) ==
    IF Len(s) = 0 THEN <<x>>
    ELSE IF StrLess(x, s[1]) THEN <<x>> \o s
    ELSE <<s[1]>> \o InsertSorted(x, Tail(s))

SortStrings_Unsorted(s) == s

\* Array.prototype.sort() on strings
RECURSIVE SortStrings(_)
SortStrings(s) ==
    IF Len(s) = 0 THEN <<>> ELSE InsertSorted(s[1], SortStrings(Tail(s)))

CumulativeSeries_PerMonth(contribs) ==
    LET sortedMonths == SortStrings(KeysOf(contribs)) IN
    [i \in 1..Len(sortedMonths) |->
        [month |-> sortedMonths[i], citations |-> CountOf(contribs, sortedMonths[i])]]

\* sortedMonths.map(month => { cumulative += monthCounts[month]; ... })
CumulativeSeries(contribs) ==
    LET sortedMonths == SortStrings(KeysOf(contribs)) IN
    [i \in 1..Len(sortedMonths) |->
        [month |-> sortedMonths[i],
         citations |-> SumSeq([j \in 1..i |-> CountOf(contribs, sortedMonths[j])])]]

-----------------------------------------------------------------------------
(* getCitationTimeSeries, getMultiSeriesCitationData *)

\* the contributions that write to monthCounts, in order
RECURSIVE SelectContribs(_)
SelectContribs(s) ==
    IF Len(s) = 0 THEN <<>>
    ELSE IF s[1].n > 0 THEN <<s[1]>> \o SelectContribs(Tail(s))
    ELSE SelectContribs(Tail(s))

\* the union of the papers of all LLM topics
AllLLMPaperIds == UNION {DocIds(llmClusters[i]) : i \in 1..Len(llmClusters)}

\* llmClusterId is Null (argument omitted) or Some(key)
getCitationTimeSeries(llmClusterId) ==
    IF IsNull(papersInfo) THEN <<>>
    ELSE
        LET papersInfoArray == Val(papersInfo)
            paperIds ==
                IF ~IsNull(llmClusterId) /\ Len(Val(llmClusterId)) > 0
                   /\ HasKey(llmClusters, Val(llmClusterId))
                THEN DocIds(Lookup(llmClusters, Val(llmClusterId)))
                ELSE AllLLMPaperIds
            contrib(paper) ==
                LET month == inferMonth(Some(paper)) IN
                IF paper.paperId \in paperIds /\ ~IsNull(month)
                THEN [month |-> Val(month), n |-> 1]
                ELSE [month |-> <<>>, n |-> 0]
        IN  CumulativeSeries(SelectContribs(
                [i \in 1..Len(papersInfoArray) |-> contrib(papersInfoArray[i])]))

\* papersInfoMap.get(paperId): the last record of the array with that id
papersInfoMapGet(papersInfoArray, paperId) ==
    LET idx == {i \in 1..Len(papersInfoArray) : papersInfoArray[i].paperId = paperId} IN
    IF idx = {} THEN Null
    ELSE Some(papersInfoArray[CHOOSE i \in idx : \A j \in idx : j <= i])

\* one paper's step of the papers.forEach of getMultiSeriesCitationData:
\* what it adds to monthCounts (n = 0: nothing)
MultiSeriesContribution_AnyTopic(paper, llmPaperIds, psychPaperIds, papersInfoArray) ==
    LET month == inferMonth(papersInfoMapGet(papersInfoArray, paper.paperId)) IN
    IF ~IsNull(month)
    THEN [month |-> Val(month), n |-> RefsInto(paper, psychPaperIds)]
    ELSE [month |-> <<>>, n |-> 0]

MultiSeriesContribution(paper, llmPaperIds, psychPaperIds, papersInfoArray) ==
    LET month == inferMonth(papersInfoMapGet(papersInfoArray, paper.paperId)) IN
    IF paper.paperId \in llmPaperIds /\ ~IsNull(month)
    THEN [month |-> Val(month), n |-> RefsInto(paper, psychPaperIds)]
    ELSE [month |-> <<>>, n |-> 0]

getMultiSeriesCitationData(llmClusterId) ==
    IF IsNull(filteredPapers) \/ IsNull(papersInfo) THEN <<>>
    ELSE IF ~HasKey(llmClusters, llmClusterId) THEN <<>>
    ELSE
        LET llmPaperIds == DocIds(Lookup(llmClusters, llmClusterId))
            papersInfoArray == Val(papersInfo)
            papers == Val(filteredPapers)
            seriesOf(p) ==
                LET data == CumulativeSeries(SelectContribs(
                                [i \in 1..Len(papers) |->
                                    MultiSeriesContribution(papers[i], llmPaperIds,
                                        DocIds(psychClusters[p]), papersInfoArray)]))
                IN  IF Len(data) > 0
                    THEN <<[psychKey |-> psychClusters[p].key,
                            psychCluster |-> getClusterNumber(psychClusters[p].key),
                            data |-> data]>>
                    ELSE <<>>
        IN  FlattenSeq([p \in 1..Len(psychClusters) |-> seriesOf(p)])

-----------------------------------------------------------------------------
(* normalizeTheoryName, getTopTheories, getTheoryTableData *)

IsSpace(c) == c = " "

\* the number of whitespace characters of s from index i on
RECURSIVE SpaceRun(_, _)
SpaceRun(s, i) ==
    IF i > Len(s) \/ ~IsSpace(s[i]) THEN 0 ELSE 1 + SpaceRun(s, i + 1)

RECURSIVE TrimStart(_)
TrimStart(s) == IF Len(s) > 0 /\ IsSpace(s[1]) THEN TrimStart(Tail(s)) ELSE s

RECURSIVE TrimEnd(_)
TrimEnd(s) ==
    IF Len(s) > 0 /\ IsSpace(s[Len(s)]) THEN TrimEnd(SubSeq(s, 1, Len(s) - 1)) ELSE s

\* String.prototype.trim
trim(s) == TrimEnd(TrimStart(s))

StartsWith(s, pre) == Len(pre) <= Len(s) /\ SubSeq(s, 1, Len(pre)) = pre
EndsWith(s, suf) == Len(suf) <= Len(s) /\ SubSeq(s, Len(s) - Len(suf) + 1, Len(s)) = suf

\* s.replace(pat, '') for a string pat: the first occurrence is removed
ReplaceFirst(s, pat) ==
    LET at == {i \in 1..Len(s) : i + Len(pat) - 1 <= Len(s) /\ SubSeq(s, i, i + Len(pat) - 1) = pat}
    IN  IF at = {} THEN s
        ELSE LET i0 == CHOOSE i \in at : \A j \in at : i <= j
             IN  SubSeq(s, 1, i0 - 1) \o SubSeq(s, i0 + Len(pat), Len(s))

Word_theories == <<"t", "h", "e", "o", "r", "i", "e", "s">>
Word_theory == <<"t", "h", "e", "o", "r", "y">>
Word_mental == <<"m", "e", "n", "t", "a", "l">>

\* .replace(/theories$/i, 'theory') of a lower-case string
ReplaceTheoriesSuffix(lower) ==
    IF EndsWith(lower, Word_theories)
    THEN SubSeq(lower, 1, Len(lower) - Len(Word_theories)) \o Word_theory
    ELSE lower

\* .replace(/^mental\s+/i, '') of a lower-case string, spaces being the run after "mental"
DropMentalPrefix(singular, spaces) ==
    IF StartsWith(singular, Word_mental) /\ spaces >= 1
    THEN SubSeq(singular, Len(Word_mental) + 1 + spaces, Len(singular))
    ELSE singular

ReplaceMentalPrefix(singular) ==
    DropMentalPrefix(singular, SpaceRun(singular, Len(Word_mental) + 1))

normalizeTheoryName_NoPrefixStrip(name) ==
    trim(ReplaceTheoriesSuffix(toLowerCase(name)))

\* name.toLowerCase().replace(/theories$/i, 'theory').replace(/^mental\s+/i, '').trim()
normalizeTheoryName(name) ==
    trim(ReplaceMentalPrefix(ReplaceTheoriesSuffix(toLowerCase(name))))

\* cmp(a, b) < 0 for a comparator `first difference, else second difference`
\* over the pairs of numbers x (of a) and y (of b)
PairLess(x, y) == x[1] < y[1] \/ (x[1] = y[1] /\ x[2] < y[2])

\* Array.prototype.sort(cmp), which is stable: s[i] is ordered by the pair key[i],
\* and elements with equal pairs keep their order
StableSort(s, key) ==
    LET rank(i) == Cardinality({j \in 1..Len(s) :
                        PairLess(key[j], key[i]) \/ (key[j] = key[i] /\ j < i)}) + 1
    IN  [r \in 1..Len(s) |-> s[CHOOSE i \in 1..Len(s) : rank(i) = r]]

Slice0_NoLimit(s, n) == s

\* slice(0, n)
Slice0(s, n) == SubSeq(s, 1, IF n < Len(s) THEN n ELSE Len(s))

\* (a, b) => b.citations - a.citations
SortByCitationsDesc(pairs) ==
    StableSort(pairs, [i \in 1..Len(pairs) |-> <<0, 0 - pairs[i].citations>>])

getTopTheories_Unsorted(clusterTheories, n) ==
    Slice0([i \in 1..Len(clusterTheories) |->
               [name |-> clusterTheories[i].key,
                citations |-> clusterTheories[i].citation]], n)

\* entries -> {name, citations}, sort by descending citations, slice(0, n)
getTopTheories(clusterTheories, n) ==
    Slice0(SortByCitationsDesc([i \in 1..Len(clusterTheories) |->
                                   [name |-> clusterTheories[i].key,
                                    citations |-> clusterTheories[i].citation]]), n)

\* map.get(key) of a Map built by set() calls in order: the index of the last
\* set() among the indices idx of the calls with that key, 0 when there is none
LastIndex(idx) ==
    IF idx = {} THEN 0 ELSE CHOOSE i \in idx : \A j \in idx : j <= i

\* normalizedToCanonical.get(normalizedName) || theoryName, k being the last
\* entry of the pool with that normalized name
CanonicalOr(k, theoryName, clusterTheories) ==
    IF k = 0 \/ Len(clusterTheories[k].key) = 0 THEN theoryName ELSE clusterTheories[k].key

CanonicalName_NormalizedFirst(theoryName, clusterTheories) ==
    CanonicalOr(LastIndex({i \in 1..Len(clusterTheories) :
                              normalizeTheoryName(clusterTheories[i].key)
                                  = normalizeTheoryName(theoryName)}),
                theoryName, clusterTheories)

\* the name under which theoryName is looked up in the pool
CanonicalName(theoryName, clusterTheories) ==
    IF HasKey(clusterTheories, theoryName) THEN theoryName
    ELSE CanonicalOr(LastIndex({i \in 1..Len(clusterTheories) :
                                   normalizeTheoryName(clusterTheories[i].key)
                                       = normalizeTheoryName(theoryName)}),
                     theoryName, clusterTheories)

\* the rows pushed for one theory of a subtopic: one row, or none when unresolved
RowsOfCanonical(subCluster, canonicalName, clusterTheories, topTheoryNames) ==
    IF HasKey(clusterTheories, canonicalName)
    THEN <<[subtopic |-> subCluster.topic,
            theory |-> canonicalName,
            citations |-> Lookup(clusterTheories, canonicalName).citation,
            isTopThree |-> canonicalName \in topTheoryNames]>>
    ELSE <<>>

TheoryRowsOf(subCluster, theoryName, clusterTheories, topTheoryNames) ==
    RowsOfCanonical(subCluster, CanonicalName(theoryName, clusterTheories),
                    clusterTheories, topTheoryNames)

NamesOf(topTheories) == {topTheories[i].name : i \in 1..Len(topTheories)}

\* the rows in the order they are pushed
PushedRows(secondaryClusterData, clusterTheories, topTheoryNames) ==
    FlattenSeq([i \in 1..Len(secondaryClusterData) |->
        FlattenSeq([t \in 1..Len(secondaryClusterData[i].theories) |->
            TheoryRowsOf(secondaryClusterData[i], secondaryClusterData[i].theories[t],
                         clusterTheories, topTheoryNames)])])

\* subtopicOrder.get(topic) || 0, k being the last subtopic entry with that topic
OrderOr0(k) == IF k = 0 THEN 0 ELSE k - 1

subtopicOrder(secondaryClusterData, topic) ==
    OrderOr0(LastIndex({i \in 1..Len(secondaryClusterData) :
                           secondaryClusterData[i].topic = topic}))

\* subtopicDiff !== 0 ? subtopicDiff : b.citations - a.citations
SortRows(rows, secondaryClusterData) ==
    StableSort(rows,
        [i \in 1..Len(rows) |->
            <<subtopicOrder(secondaryClusterData, rows[i].subtopic), 0 - rows[i].citations>>])

TheoryTableOf(secondaryClusterData, clusterTheories) ==
    SortRows(PushedRows(secondaryClusterData, clusterTheories,
                        NamesOf(getTopTheories(clusterTheories, 3))),
             secondaryClusterData)

TheoryTableAt(clusterKey) ==
    IF ~HasKey(secondaryClusters, clusterKey) \/ ~HasKey(theoryPool, clusterKey) THEN <<>>
    ELSE TheoryTableOf(Lookup(secondaryClusters, clusterKey).subs,
                       Lookup(theoryPool, clusterKey).theories)

getTheoryTableData(psychClusterId) ==
    TheoryTableAt(ClusterWord \o NumToStr(getClusterNumber(psychClusterId)))

-----------------------------------------------------------------------------
(* getTheoryDistribution *)

NormalizedTitle_CaseKept(docTitle) == trim(docTitle)

\* String(docTitle).toLowerCase().trim()
NormalizedTitle(docTitle) == trim(toLowerCase(docTitle))

FirstIndex(idx) ==
    IF idx = {} THEN 0 ELSE CHOOSE i \in idx : \A j \in idx : i <= j

\* the first pool, in the order of Object.values(theoryPool), that holds
\* theoryName; 0 when none does
PoolHolding(theoryName) ==
    FirstIndex({k \in 1..Len(theoryPool) : HasKey(theoryPool[k].theories, theoryName)})

\* the paper ids that the titles of docs resolve to in titleToPaperId
theoryPaperIds(docs) ==
    {Lookup(titleToPaperId, NormalizedTitle(docs[i])).paperId :
        i \in {i \in 1..Len(docs) : HasKey(titleToPaperId, NormalizedTitle(docs[i]))}}

DistributionRows_NonZero(papers, paperIds) ==
    SelectSeq([l \in 1..Len(llmClusters) |->
                  [topic |-> llmClusters[l].key,
                   citations |-> citationCount(papers, DocIds(llmClusters[l]), paperIds)]],
              LAMBDA row : row.citations > 0)

\* one distribution.push per LLM cluster, the cluster key standing for its label
DistributionRows(papers, paperIds) ==
    [l \in 1..Len(llmClusters) |->
        [topic |-> llmClusters[l].key,
         citations |-> citationCount(papers, DocIds(llmClusters[l]), paperIds)]]

\* the distribution of the theory found in pool k, none when k = 0
DistributionOf(k, theoryName) ==
    IF k = 0 THEN <<>>
    ELSE SortByCitationsDesc(
             DistributionRows(Val(filteredPapers),
                 theoryPaperIds(Lookup(theoryPool[k].theories, theoryName).docs)))

getTheoryDistribution(theoryName) ==
    IF IsNull(filteredPapers) \/ Len(titleToPaperId) = 0 THEN <<>>
    ELSE DistributionOf(PoolHolding(theoryName), theoryName)

-----------------------------------------------------------------------------
(* The relations a load can deliver, within the bounds *)

LLMPaperSeq == [i \in 1..NumLLMPapers |-> <<"L", i>>]
PsychPaperSeq == [j \in 1..NumPsychPapers |-> <<"P", j>>]
LLMPaperIds == Range(LLMPaperSeq)
PsychPaperIds == Range(PsychPaperSeq)

LLMKeys == [k \in 1..NumLLMTopics |-> ClusterKey(k - 1)]
PsychKeys == [k \in 1..NumPsychTopics |-> ClusterKey(k - 1)]

\* the members of the sequence all that are in the set S, in order
Restrict(all, S) == SelectSeq(all, LAMBDA x : x \in S)

\* Topic assignments: paper i belongs to topic a[i], or to none when a[i] = 0.
\* Papers are interchangeable, so the assignments are taken in ascending order.
Assignments(nPapers, nTopics) ==
    {a \in [1..nPapers -> 0..nTopics] :
        \A i \in 1..nPapers : \A j \in 1..nPapers : i <= j => a[i] <= a[j]}

ClustersOf(keys, paperSeq, a) ==
    [k \in 1..Len(keys) |->
        LET docs == Restrict(paperSeq, {paperSeq[i] : i \in {i \in 1..Len(paperSeq) : a[i] = k}})
        IN  [key |-> keys[k], size |-> Len(docs), docs |-> docs]]

\* a reference list: absent, or the cited Psychology papers
ReferenceLists == {Null} \cup {Some(Restrict(PsychPaperSeq, S)) : S \in SUBSET PsychPaperIds}

FilteredPapersOf(refs) ==
    [i \in 1..NumLLMPapers |-> [paperId |-> LLMPaperSeq[i], references |-> refs[i]]]

NoCall == [fn |-> "none", arg |-> Null, value |-> <<>>]

\* the promises of the Promise.all of loadData, in its order
Loaders ==
    <<"loadLLMClusters", "loadPsychClusters", "loadTheoryPool", "loadSecondaryClusters",
      "loadFilteredPapersInfo", "loadFilteredPapers", "loadRefsInfo">>

\* the load is over and delivered no theories, subtopics or titles
NothingElseLoaded ==
    /\ theoryPool = <<>>
    /\ secondaryClusters = <<>>
    /\ titleToPaperId = <<>>
    /\ fetches = [f \in Range(Loaders) |-> "fulfilled"]

NothingSelected ==
    /\ selectedLLMNode = Null
    /\ selectedPsychNode = Null
    /\ selectedTheory = Null

-----------------------------------------------------------------------------
(* SpecEdges: getBipartiteEdges over any loaded relations *)

InitEdges ==
    /\ loading = FALSE
    /\ \E a \in Assignments(NumLLMPapers, NumLLMTopics) :
           llmClusters = ClustersOf(LLMKeys, LLMPaperSeq, a)
    /\ \E a \in Assignments(NumPsychPapers, NumPsychTopics) :
           psychClusters = ClustersOf(PsychKeys, PsychPaperSeq, a)
    /\ \E refs \in [1..NumLLMPapers -> ReferenceLists] :
           filteredPapers = Some(FilteredPapersOf(refs))
    /\ papersInfo = Some(<<>>)
    /\ NothingElseLoaded
    /\ NothingSelected
    /\ result = NoCall

CallGetBipartiteEdges ==
    /\ ~loading
    /\ result' = [fn |-> "getBipartiteEdges", arg |-> Null, value |-> getBipartiteEdges]
    /\ UNCHANGED <<hookVars, dashVars>>

NextEdges == CallGetBipartiteEdges

SpecEdges == InitEdges /\ [][NextEdges]_vars

\* the citation pairs (p, q) with p among A's papers and q among B's papers
CitationPairs(A, B) ==
    {pq \in A \X B :
        \E i \in 1..Len(Val(filteredPapers)) :
            /\ Val(filteredPapers)[i].paperId = pq[1]
            /\ ~IsNull(Val(filteredPapers)[i].references)
            /\ pq[2] \in Range(Val(Val(filteredPapers)[i].references))}

EdgesFor(edges, l, p) ==
    {i \in 1..Len(edges) :
        /\ edges[i].source = LLMPrefix \o llmClusters[l].key
        /\ edges[i].target = PsychPrefix \o psychClusters[p].key}

\* C1: for every pair (LLM topic A, Psychology topic B) getBipartiteEdges emits
\* one edge from A to B whose weight is the number of citation pairs (p, q)
\* with p in A's papers and q in B's papers, and no edge for the pair when
\* that number is 0; no emitted edge has a weight below 1.
C1_EdgeWeight ==
    result.fn = "getBipartiteEdges" =>
        /\ \A i \in 1..Len(result.value) : result.value[i].weight >= 1
        /\ \A l \in 1..Len(llmClusters) : \A p \in 1..Len(psychClusters) :
              LET n == Cardinality(CitationPairs(DocIds(llmClusters[l]), DocIds(psychClusters[p])))
                  es == EdgesFor(result.value, l, p)
              IN  IF n = 0 THEN es = {}
                  ELSE /\ Cardinality(es) = 1
                       /\ \A i \in es : result.value[i].weight = n

\* an edge of weight 2 or more has been emitted while another pair of topics has none
C1_Witness ==
    /\ result.fn = "getBipartiteEdges"
    /\ \E i \in 1..Len(result.value) : result.value[i].weight >= 2
    /\ Len(result.value) < Len(llmClusters) * Len(psychClusters)
    /\ Len(result.value) >= 2

-----------------------------------------------------------------------------
(* SpecMonth: the month of one paper, drawn over publication dates and urls *)

TwoDigits(n) == <<Digits[(n \div 10) + 1], Digits[(n % 10) + 1]>>

Date_2023 == <<"2", "0", "2", "3">>
Date_2023_1 == Date_2023 \o <<"-", "1">>
Date_2023_10 == Date_2023 \o <<"-", "1", "0">>
Date_2023_10_05 == Date_2023_10 \o <<"-", "0", "5">>
Date_2021_03_15 == <<"2", "0", "2", "1", "-", "0", "3", "-", "1", "5">>

PubDates ==
    {Null, Some(<<>>), Some(Date_2023), Some(Date_2023_1), Some(Date_2023_10),
     Some(Date_2023_10_05), Some(Date_2021_03_15)}

Https == <<"h", "t", "t", "p", "s", ":", "/", "/">>
AbsPrefix == Https \o ArxivLiteral
AbsPrefixUpper == Https \o <<"A", "R", "X", "I", "V", ".", "O", "R", "G", "/", "a", "b", "s", "/">>
PdfPrefix == Https \o <<"a", "r", "x", "i", "v", ".", "o", "r", "g", "/", "p", "d", "f", "/">>

Tail_01234 == <<".", "0", "1", "2", "3", "4">>
Tail_01234v2 == Tail_01234 \o <<"v", "2">>
Tail_0123 == <<".", "0", "1", "2", "3">>
Tail_012 == <<".", "0", "1", "2">>

\* the prefixes and tails under which a url has the form .../abs/YYMM.NNNNN
AbsPrefixes == {AbsPrefix, AbsPrefixUpper}
AbsTails == {Tail_01234, Tail_01234v2, Tail_0123}

UrlPrefixes == AbsPrefixes \cup {PdfPrefix}
UrlTails == AbsTails \cup {Tail_012}
YearCodes == {0, 23, 99}

MkUrl(prefix, yy, mm, tail) == prefix \o TwoDigits(yy) \o TwoDigits(mm) \o tail

ArxivUrls ==
    {Null, Some(<<>>)} \cup
    {Some(MkUrl(prefix, yy, mm, tail)) :
        prefix \in UrlPrefixes, yy \in YearCodes, mm \in 0..MaxMonthCode, tail \in UrlTails}

InitMonth ==
    /\ loading = FALSE
    /\ llmClusters = <<[key |-> ClusterKey(0), size |-> 1, docs |-> <<LLMPaperSeq[1]>>]>>
    /\ psychClusters = <<>>
    /\ filteredPapers = Some(<<>>)
    /\ \E pub \in PubDates : \E url \in ArxivUrls :
           papersInfo = Some(<<[paperId |-> LLMPaperSeq[1],
                                publicationDate |-> pub, arxivUrl |-> url]>>)
    /\ NothingElseLoaded
    /\ NothingSelected
    /\ result = NoCall

CallInferMonth ==
    /\ ~loading
    /\ \E i \in 1..Len(Val(papersInfo)) :
          result' = [fn |-> "inferMonth", arg |-> Some(Val(papersInfo)[i]),
                     value |-> inferMonth(Some(Val(papersInfo)[i]))]
    /\ UNCHANGED <<hookVars, dashVars>>

CallGetCitationTimeSeries(llmClusterId) ==
    /\ ~loading
    /\ result' = [fn |-> "getCitationTimeSeries", arg |-> llmClusterId,
                  value |-> getCitationTimeSeries(llmClusterId)]
    /\ UNCHANGED <<hookVars, dashVars>>

NextMonth ==
    \/ CallInferMonth
    \/ CallGetCitationTimeSeries(Null)

SpecMonth == InitMonth /\ [][NextMonth]_vars

\* the month "20YY-MM"
MonthOf(yy, mm) == <<"2", "0">> \o TwoDigits(yy) \o <<"-">> \o TwoDigits(mm)

\* the only paper of SpecMonth
ThePaper == Val(papersInfo)[1]

\* the paper has no publication date and its url is .../abs/YYMM.NNNNN with these codes
UndatedWithCode(yy, mm) ==
    /\ IsNull(ThePaper.publicationDate)
    /\ \E prefix \in AbsPrefixes : \E tail \in AbsTails :
          ThePaper.arxivUrl = Some(MkUrl(prefix, yy, mm, tail))

\* C7: a paper with no publication date and an identifier url .../abs/YYMM.NNNNN
\* resolves to month 20YY-MM when 1 <= MM <= 12 and then is the one point of the
\* series; when MM is outside 1..12 it resolves to no month and the series has no
\* point for it (it is not clamped to a valid month).
C7_DateFallback ==
    \A yy \in YearCodes : \A mm \in 0..MaxMonthCode :
        UndatedWithCode(yy, mm) =>
            /\ result.fn = "inferMonth" =>
                  result.value = (IF mm >= 1 /\ mm <= 12 THEN Some(MonthOf(yy, mm)) ELSE Null)
            /\ result.fn = "getCitationTimeSeries" =>
                  result.value = (IF mm >= 1 /\ mm <= 12
                                  THEN <<[month |-> MonthOf(yy, mm), citations |-> 1]>>
                                  ELSE <<>>)

\* the url .../abs/2310.01234 of an undated paper has given 2023-10, in the series too
C7_Witness ==
    /\ IsNull(ThePaper.publicationDate)
    /\ ThePaper.arxivUrl = Some(AbsPrefix \o <<"2", "3", "1", "0">> \o Tail_01234)
    /\ result.fn = "getCitationTimeSeries"
    /\ result.value = <<[month |-> <<"2", "0", "2", "3", "-", "1", "0">>, citations |-> 1]>>

\* C8 as stated: whenever the metadata carries a (non-empty) publication date
\* string, the resolved month is the first 7 characters of that string.
C8_AsStated ==
    (/\ result.fn = "inferMonth"
     /\ ~IsNull(ThePaper.publicationDate)
     /\ Len(Val(ThePaper.publicationDate)) > 0) =>
        result.value = Some(substring0(Val(ThePaper.publicationDate), 7))

\* C8 amended: a publication date string of at least 7 characters resolves to
\* its first 7 characters whatever the url gives; the url decides the month
\* only when the date is absent or shorter than 7 characters, and then a url
\* .../abs/YYMM.NNNNN with 1 <= MM <= 12 gives 20YY-MM.
C8_ExplicitDateWins ==
    result.fn = "inferMonth" =>
        LET pub == ThePaper.publicationDate IN
        /\ (~IsNull(pub) /\ Len(Val(pub)) >= 7) =>
              result.value = Some(SubSeq(Val(pub), 1, 7))
        /\ (IsNull(pub) \/ Len(Val(pub)) < 7) =>
              /\ IsNull(ThePaper.arxivUrl) => IsNull(result.value)
              /\ \A yy \in YearCodes : \A mm \in 1..12 :
                    (\E prefix \in AbsPrefixes : \E tail \in AbsTails :
                        ThePaper.arxivUrl = Some(MkUrl(prefix, yy, mm, tail)))
                    => result.value = Some(MonthOf(yy, mm))

\* a dated paper whose url carries another month has resolved to the month of its date
C8_Witness ==
    /\ result.fn = "inferMonth"
    /\ ThePaper.publicationDate = Some(Date_2021_03_15)
    /\ ThePaper.arxivUrl = Some(MkUrl(AbsPrefix, 23, 10, Tail_01234))
    /\ result.value = Some(<<"2", "0", "2", "1", "-", "0", "3">>)

-----------------------------------------------------------------------------------------------------------------------------------------------------
(* The metadata and reference lists the series are computed from *)

Url_2310 == MkUrl(AbsPrefix, 23, 10, Tail_01234)
Url_2313 == MkUrl(AbsPrefix, 23, 13, Tail_01234)
Url_9912 == MkUrl(AbsPrefix, 99, 12, Tail_01234v2)

Info_Dated == [publicationDate |-> Some(Date_2023_10_05), arxivUrl |-> Null]
Info_DatedEarlier == [publicationDate |-> Some(Date_2021_03_15), arxivUrl |-> Some(Url_2310)]
Info_UrlOnly == [publicationDate |-> Null, arxivUrl |-> Some(Url_2310)]
Info_UrlOnlyLater == [publicationDate |-> Null, arxivUrl |-> Some(Url_9912)]
Info_NoMonth == [publicationDate |-> Some(Date_2023), arxivUrl |-> Some(Url_2313)]

\* the metadata of one paper: dated, dated with a url of another month, undated
\* with a url, without any resolvable month
SeriesInfos == {Info_Dated, Info_DatedEarlier, Info_UrlOnly, Info_UrlOnlyLater, Info_NoMonth}

\* every paper has a metadata record, or none (info[i] = Null)
PapersInfoOf(info) ==
    LET rec(i) == IF IsNull(info[i]) THEN <<>>
                  ELSE <<[paperId |-> LLMPaperSeq[i],
                          publicationDate |-> Val(info[i]).publicationDate,
                          arxivUrl |-> Val(info[i]).arxivUrl]>>
    IN  FlattenSeq([i \in 1..NumLLMPapers |-> rec(i)])

\* Psychology paper j belongs to topic ((j - 1) mod NumPsychTopics) + 1
PsychRoundRobin == [j \in 1..NumPsychPapers |-> ((j - 1) % NumPsychTopics) + 1]

\* a key no LLM topic has
UnknownKey == ClusterKey(NumLLMTopics)

-----------------------------------------------------------------------------
(* SpecTimeSeries: getCitationTimeSeries over any topics and metadata *)

InitTimeSeries ==
    /\ loading = FALSE
    /\ \E a \in Assignments(NumLLMPapers, NumLLMTopics) :
           llmClusters = ClustersOf(LLMKeys, LLMPaperSeq, a)
    /\ psychClusters = ClustersOf(PsychKeys, PsychPaperSeq, PsychRoundRobin)
    /\ filteredPapers = Some(FilteredPapersOf([i \in 1..NumLLMPapers |-> Some(<<>>)]))
    /\ \E info \in [1..NumLLMPapers -> {Null} \cup {Some(r) : r \in SeriesInfos}] :
           papersInfo = Some(PapersInfoOf(info))
    /\ NothingElseLoaded
    /\ NothingSelected
    /\ result = NoCall

NextTimeSeries ==
    \/ CallGetCitationTimeSeries(Null)
    \/ \E k \in Range(LLMKeys) \cup {UnknownKey} : CallGetCitationTimeSeries(Some(k))

SpecTimeSeries == InitTimeSeries /\ [][NextTimeSeries]_vars

-----------------------------------------------------------------------------
(* SpecSeries: getCitationTimeSeries and getMultiSeriesCitationData *)

RefsFirst == Some(<<PsychPaperSeq[1]>>)
RefsLast == Some(<<PsychPaperSeq[NumPsychPapers]>>)
RefsAll == Some(PsychPaperSeq)

\* one LLM paper: its metadata (or none) and its reference list (or none)
PaperProfiles ==
    {[info |-> Some(Info_Dated), references |-> RefsFirst],
     [info |-> Some(Info_Dated), references |-> RefsLast],
     [info |-> Some(Info_DatedEarlier), references |-> RefsAll],
     [info |-> Some(Info_UrlOnly), references |-> RefsFirst],
     [info |-> Some(Info_NoMonth), references |-> RefsAll],
     [info |-> Null, references |-> RefsAll],
     [info |-> Some(Info_DatedEarlier), references |-> Null],
     [info |-> Some(Info_Dated), references |-> Some(<<>>)]}

InitSeries ==
    /\ loading = FALSE
    /\ \E a \in Assignments(NumLLMPapers, NumLLMTopics) :
           llmClusters = ClustersOf(LLMKeys, LLMPaperSeq, a)
    /\ psychClusters = ClustersOf(PsychKeys, PsychPaperSeq, PsychRoundRobin)
    /\ \E prof \in [1..NumLLMPapers -> PaperProfiles] :
           /\ filteredPapers = Some(FilteredPapersOf([i \in 1..NumLLMPapers |-> prof[i].references]))
           /\ papersInfo = Some(PapersInfoOf([i \in 1..NumLLMPapers |-> prof[i].info]))
    /\ NothingElseLoaded
    /\ NothingSelected
    /\ result = NoCall

CallGetMultiSeriesCitationData(llmClusterId) ==
    /\ ~loading
    /\ result' = [fn |-> "getMultiSeriesCitationData", arg |-> Some(llmClusterId),
                  value |-> getMultiSeriesCitationData(llmClusterId)]
    /\ UNCHANGED <<hookVars, dashVars>>

NextSeries ==
    \/ CallGetCitationTimeSeries(Null)
    \/ \E k \in Range(LLMKeys) \cup {UnknownKey} : CallGetCitationTimeSeries(Some(k))
    \/ \E k \in Range(LLMKeys) \cup {UnknownKey} : CallGetMultiSeriesCitationData(k)

SpecSeries == InitSeries /\ [][NextSeries]_vars

StrLeq(a, b) == a = b \/ StrLess(a, b)

\* months ascending and citations never decreasing along the series d
Monotone(d) ==
    \A i \in 1..Len(d) : \A j \in 1..Len(d) :
        i < j => /\ StrLess(d[i].month, d[j].month)
                 /\ d[i].citations <= d[j].citations

\* C6: the series of getCitationTimeSeries, and every series of
\* getMultiSeriesCitationData, has its months in ascending order and a
\* citations field that never decreases from one point to the next.
C6_CumulativeMonotone ==
    /\ result.fn = "getCitationTimeSeries" => Monotone(result.value)
    /\ result.fn = "getMultiSeriesCitationData" =>
          \A s \in 1..Len(result.value) : Monotone(result.value[s].data)

\* a series of two points came out although the metadata array holds the
\* paper of the later month first
C6_Witness ==
    /\ result.fn = "getCitationTimeSeries"
    /\ Len(result.value) >= 2
    /\ Len(Val(papersInfo)) >= 2
    /\ inferMonth(Some(Val(papersInfo)[1])) = Some(result.value[2].month)
    /\ inferMonth(Some(Val(papersInfo)[2])) = Some(result.value[1].month)

-----------------------------------------------------------------------------
(* What the series are stated against: each paper's month and citations *)

\* the resolved month of LLM paper x: that of its metadata record, if it has one
ResolvedMonth(x) ==
    LET recs == {i \in 1..Len(Val(papersInfo)) : Val(papersInfo)[i].paperId = x} IN
    IF recs = {} THEN Null
    ELSE inferMonth(Some(Val(papersInfo)[CHOOSE i \in recs : TRUE]))

\* the Psychology papers that LLM paper x cites
CitedBy(x) ==
    UNION {IF IsNull(Val(filteredPapers)[i].references) THEN {}
           ELSE Range(Val(Val(filteredPapers)[i].references)) :
           i \in {i \in 1..Len(Val(filteredPapers)) : Val(filteredPapers)[i].paperId = x}}

\* the papers of mem whose resolved month is m or earlier
ResolvedUpTo(mem, m) ==
    {x \in mem : ~IsNull(ResolvedMonth(x)) /\ StrLeq(Val(ResolvedMonth(x)), m)}

MonthsOfSeries(d) == {d[i].month : i \in 1..Len(d)}

\* C9: for no argument or the key of a loaded LLM topic, getCitationTimeSeries
\* returns exactly one point per distinct resolved month that has at least one
\* paper of the membership set (the topic's papers, or the union of all LLM
\* topics without argument), and the citations of the point of month m is the
\* number of those papers whose resolved month is m or earlier.
C9_TimeSeriesCounts ==
    (/\ result.fn = "getCitationTimeSeries"
     /\ (IsNull(result.arg) \/ HasKey(llmClusters, Val(result.arg)))) =>
        LET mem == IF IsNull(result.arg)
                   THEN UNION {Range(llmClusters[k].docs) : k \in 1..Len(llmClusters)}
                   ELSE Range(Lookup(llmClusters, Val(result.arg)).docs)
            months == {Val(ResolvedMonth(x)) : x \in {x \in mem : ~IsNull(ResolvedMonth(x))}}
            d == result.value
        IN  /\ MonthsOfSeries(d) = months
            /\ Len(d) = Cardinality(months)
            /\ \A i \in 1..Len(d) :
                  d[i].citations = Cardinality(ResolvedUpTo(mem, d[i].month))

\* the series of one loaded topic has two points, the second counting two papers
C9_Witness ==
    /\ result.fn = "getCitationTimeSeries"
    /\ ~IsNull(result.arg)
    /\ HasKey(llmClusters, Val(result.arg))
    /\ Len(result.value) = 2
    /\ result.value[2].citations = 2

\* the citation edges from papers of A to papers of B whose source paper
\* resolves to month m or earlier
EdgesUpTo(A, B, m) ==
    {xq \in A \X B : xq[2] \in CitedBy(xq[1]) /\ xq[1] \in ResolvedUpTo(A, m)}

\* the months in which a paper of A cites a paper of B
EdgeMonths(A, B) ==
    {Val(ResolvedMonth(x)) :
        x \in {x \in A : ~IsNull(ResolvedMonth(x)) /\ CitedBy(x) \cap B # {}}}

\* C10: for a loaded LLM topic A getMultiSeriesCitationData returns, for every
\* Psychology topic B cited from A in some month, exactly one series whose
\* points are the months in which a paper of A cites a paper of B, each with
\* the number of citation edges from A to B whose source paper resolves to
\* that month or an earlier one; a Psychology topic whose total is 0 has no
\* series, and every series belongs to a Psychology topic.
C10_MultiSeriesCounts ==
    (/\ result.fn = "getMultiSeriesCitationData"
     /\ HasKey(llmClusters, Val(result.arg))) =>
        LET A == Range(Lookup(llmClusters, Val(result.arg)).docs)
            v == result.value
        IN  /\ \A s \in 1..Len(v) :
                  \E b \in 1..Len(psychClusters) : v[s].psychKey = psychClusters[b].key
            /\ \A b \in 1..Len(psychClusters) :
                  LET B == Range(psychClusters[b].docs)
                      ss == {s \in 1..Len(v) : v[s].psychKey = psychClusters[b].key}
                  IN  IF EdgeMonths(A, B) = {} THEN ss = {}
                      ELSE /\ Cardinality(ss) = 1
                           /\ \A s \in ss :
                                 /\ MonthsOfSeries(v[s].data) = EdgeMonths(A, B)
                                 /\ Len(v[s].data) = Cardinality(EdgeMonths(A, B))
                                 /\ \A i \in 1..Len(v[s].data) :
                                       v[s].data[i].citations =
                                           Cardinality(EdgesUpTo(A, B, v[s].data[i].month))

\* one Psychology topic has a series of two months that ends at 2 or more,
\* another has a shorter series
C10_Witness ==
    /\ result.fn = "getMultiSeriesCitationData"
    /\ Len(result.value) >= 2
    /\ \E s \in 1..Len(result.value) :
          /\ Len(result.value[s].data) = 2
          /\ result.value[s].data[2].citations >= 2
    /\ \E s \in 1..Len(result.value) : Len(result.value[s].data) = 1

-----------------------------------------------------------------------------
(* The data the server delivers to the Dashboard *)

Name_Schema == <<"S", "c", "h", "e", "m", "a", " ", "T", "h", "e", "o", "r", "y">>
Name_MentalSchemas == <<"M", "e", "n", "t", "a", "l", " ", "S", "c", "h", "e", "m", "a", " ", "T", "h", "e", "o", "r", "i", "e", "s">>
Name_DualProcess == <<"D", "u", "a", "l", " ", "P", "r", "o", "c", "e", "s", "s", " ", "T", "h", "e", "o", "r", "y">>
Name_Attachment == <<"A", "t", "t", "a", "c", "h", "m", "e", "n", "t", " ", "T", "h", "e", "o", "r", "y">>
Name_Prospect == <<"P", "r", "o", "s", "p", "e", "c", "t", " ", "T", "h", "e", "o", "r", "y">>
Name_Unknown == <<"U", "n", "k", "n", "o", "w", "n", " ", "T", "h", "e", "o", "r", "y">>
Topic_Cognition == <<"C", "o", "g", "n", "i", "t", "i", "o", "n">>
Topic_Development == <<"D", "e", "v", "e", "l", "o", "p", "m", "e", "n", "t">>
Topic_Decision == <<"D", "e", "c", "i", "s", "i", "o", "n">>
Title_Orphan == <<"O", "r", "p", "h", "a", "n", " ", "T", "i", "t", "l", "e">>

\* the title of Psychology paper j as the paper metadata spells it
RefTitle(j) == <<" ", "P", "a", "p", "e", "r", " ">> \o NumToStr(j)

\* the theories of the first two Psychology topics; further topics have none
ServerTheoryPool ==
    SubSeq(
      <<[key |-> ClusterKey(0),
         theories |-> <<[key |-> Name_Schema, citation |-> 10,
                         docs |-> <<<<"P", "A", "P", "E", "R", " ", "1">>, Title_Orphan>>],
                        [key |-> Name_DualProcess, citation |-> 10, docs |-> <<<<"p", "a", "p", "e", "r", " ", "2", " ">>>>],
                        [key |-> Name_Attachment, citation |-> 5, docs |-> <<>>],
                        [key |-> Name_Prospect, citation |-> 1, docs |-> <<Title_Orphan>>]>>],
        [key |-> ClusterKey(1),
         theories |-> <<[key |-> Name_Schema, citation |-> 3, docs |-> <<<<"P", "a", "p", "e", "r", " ", "2">>>>],
                        [key |-> Name_Prospect, citation |-> 7, docs |-> <<<<"P", "a", "p", "e", "r", " ", "1">>>>]>>]>>,
      1, IF NumPsychTopics < 2 THEN NumPsychTopics ELSE 2)

ServerSecondaryClusters ==
    SubSeq(
      <<[key |-> ClusterKey(0),
         subs |-> <<[key |-> ClusterKey(0), topic |-> Topic_Cognition,
                     theories |-> <<Name_Prospect, Name_MentalSchemas, Name_DualProcess>>],
                    [key |-> ClusterKey(1), topic |-> Topic_Development,
                     theories |-> <<Name_Attachment, Name_Unknown>>]>>],
        [key |-> ClusterKey(1),
         subs |-> <<[key |-> ClusterKey(0), topic |-> Topic_Decision,
                     theories |-> <<Name_Schema, Name_Prospect>>]>>]>>,
      1, IF NumPsychTopics < 2 THEN NumPsychTopics ELSE 2)

ServerRefsInfo ==
    [j \in 1..NumPsychPapers |-> [title |-> Some(RefTitle(j)), paperId |-> Some(PsychPaperSeq[j])]]

\* LLM paper i belongs to topic ((i - 1) mod NumLLMTopics) + 1
LLMRoundRobin == [i \in 1..NumLLMPapers |-> ((i - 1) % NumLLMTopics) + 1]

\* what one LLM paper is on the server
ServerPaperProfiles ==
    {[info |-> Some(Info_Dated), references |-> RefsFirst],
     [info |-> Some(Info_DatedEarlier), references |-> RefsAll],
     [info |-> Some(Info_NoMonth), references |-> RefsAll]}

-----------------------------------------------------------------------------
(* useVisualizationData: loadData *)

\* the title -> paperId map that loadData builds from refsInfo
TitleMapOf(refsInfo) ==
    LET usable == SelectSeq(refsInfo,
                      LAMBDA ref : /\ ~IsNull(ref.title) /\ Len(Val(ref.title)) > 0
                                   /\ ~IsNull(ref.paperId))
        keyOf(i) == trim(toLowerCase(Val(usable[i].title)))
        \* Map.set keeps the position of the first set() of a key and the last value
        firsts == SelectSeq([i \in 1..Len(usable) |-> i],
                      LAMBDA i : \A j \in 1..(i - 1) : keyOf(j) # keyOf(i))
    IN  [n \in 1..Len(firsts) |->
            [key |-> keyOf(firsts[n]),
             paperId |-> Val(usable[CHOOSE i \in 1..Len(usable) :
                                 /\ keyOf(i) = keyOf(firsts[n])
                                 /\ \A j \in 1..Len(usable) :
                                       keyOf(j) = keyOf(firsts[n]) => j <= i].paperId)]]

\* a fetch of Promise.all resolves with a parsed body
FetchFulfilled(f) ==
    /\ fetches[f] = "pending"
    /\ fetches' = [fetches EXCEPT ![f] = "fulfilled"]
    /\ UNCHANGED <<loading, llmClusters, psychClusters, papersInfo, filteredPapers,
                   theoryPool, secondaryClusters, titleToPaperId, dashVars, result>>

\* a fetch fails, or its response is not ok and the loader throws
FetchRejected(f) ==
    /\ fetches[f] = "pending"
    /\ fetches' = [fetches EXCEPT ![f] = "rejected"]
    /\ UNCHANGED <<loading, llmClusters, psychClusters, papersInfo, filteredPapers,
                   theoryPool, secondaryClusters, titleToPaperId, dashVars, result>>

\* the try block after the await: every relation is set, then loading is cleared
LoadDataResolved ==
    /\ loading
    /\ \A f \in Range(Loaders) : fetches[f] = "fulfilled"
    /\ \E prof \in [1..NumLLMPapers -> ServerPaperProfiles] :
          /\ llmClusters' = ClustersOf(LLMKeys, LLMPaperSeq, LLMRoundRobin)
          /\ psychClusters' = ClustersOf(PsychKeys, PsychPaperSeq, PsychRoundRobin)
          /\ theoryPool' = ServerTheoryPool
          /\ secondaryClusters' = ServerSecondaryClusters
          /\ papersInfo' = Some(PapersInfoOf([i \in 1..NumLLMPapers |-> prof[i].info]))
          /\ filteredPapers' =
                Some(FilteredPapersOf([i \in 1..NumLLMPapers |-> prof[i].references]))
    /\ titleToPaperId' = TitleMapOf(ServerRefsInfo)
    /\ loading' = FALSE
    /\ UNCHANGED <<fetches, dashVars, result>>

LoadDataRejected_StoresFulfilled ==
    /\ loading
    /\ \E f \in Range(Loaders) : fetches[f] = "rejected"
    /\ llmClusters' = IF fetches["loadLLMClusters"] = "fulfilled"
                      THEN ClustersOf(LLMKeys, LLMPaperSeq, LLMRoundRobin)
                      ELSE llmClusters
    /\ loading' = FALSE
    /\ UNCHANGED <<psychClusters, papersInfo, filteredPapers,
                   theoryPool, secondaryClusters, titleToPaperId, fetches, dashVars, result>>

LoadDataRejected_KeepLoading ==
    /\ loading
    /\ \E f \in Range(Loaders) : fetches[f] = "rejected"
    /\ UNCHANGED vars

\* the catch block: Promise.all rejects with the first rejection
LoadDataRejected ==
    /\ loading
    /\ \E f \in Range(Loaders) : fetches[f] = "rejected"
    /\ loading' = FALSE
    /\ UNCHANGED <<llmClusters, psychClusters, papersInfo, filteredPapers,
                   theoryPool, secondaryClusters, titleToPaperId, fetches, dashVars, result>>

-----------------------------------------------------------------------------
(* Dashboard: what is rendered and the selection handlers *)

\* the branch of the render: the loading view while loading, otherwise the
\* graph, the charts and the table, computed from the relations as they are
DashboardView == IF loading THEN "loading" ELSE "dashboard"

getBipartiteNodes_Positional ==
    [i \in 1..Len(llmClusters) |->
        [id |-> LLMPrefix \o llmClusters[i].key, type |-> "llm",
         cluster |-> i - 1, size |-> llmClusters[i].size]]
    \o
    [i \in 1..Len(psychClusters) |->
        [id |-> PsychPrefix \o psychClusters[i].key, type |-> "psych",
         cluster |-> i - 1, size |-> psychClusters[i].size]]

getBipartiteNodes ==
    [i \in 1..Len(llmClusters) |->
        [id |-> LLMPrefix \o llmClusters[i].key, type |-> "llm",
         cluster |-> getClusterNumber(llmClusters[i].key), size |-> llmClusters[i].size]]
    \o
    [i \in 1..Len(psychClusters) |->
        [id |-> PsychPrefix \o psychClusters[i].key, type |-> "psych",
         cluster |-> getClusterNumber(psychClusters[i].key), size |-> psychClusters[i].size]]

NodeIds(type) ==
    {getBipartiteNodes[i].id : i \in {i \in 1..Len(getBipartiteNodes) :
                                          getBipartiteNodes[i].type = type}}

\* getMultiSeriesLineData(): undefined (Null) when no LLM node is selected
getMultiSeriesLineData ==
    IF IsNull(selectedLLMNode) THEN Null
    ELSE Some(getMultiSeriesCitationData(ReplaceFirst(Val(selectedLLMNode), LLMPrefix)))

\* psychKey ? getTheoryTableData(psychKey) : []
theoryTableData ==
    IF IsNull(selectedPsychNode) THEN <<>>
    ELSE LET psychKey == ReplaceFirst(Val(selectedPsychNode), PsychPrefix)
         IN  IF Len(psychKey) = 0 THEN <<>> ELSE getTheoryTableData(psychKey)

\* selectedTheory ? getTheoryDistribution(selectedTheory) : []
theoryDistributionData ==
    IF IsNull(selectedTheory) THEN <<>> ELSE getTheoryDistribution(Val(selectedTheory))

\* every theory name of the server's pools
AllTheoryNames ==
    UNION {{ServerTheoryPool[k].theories[i].key : i \in 1..Len(ServerTheoryPool[k].theories)} :
           k \in 1..Len(ServerTheoryPool)}

ClickableTheories_Unmounted == AllTheoryNames

ClickableTheories_AllRows == {theoryTableData[i].theory : i \in 1..Len(theoryTableData)}

\* the theories whose row button is enabled in the mounted TheoryTable
ClickableTheories ==
    LET rows == theoryTableData
    IN  {rows[i].theory : i \in {i \in 1..Len(rows) : rows[i].isTopThree}}

ResetShown_WheneverSelected == ~IsNull(selectedLLMNode)

\* the reset button of CitationLineChart is rendered
ResetShown ==
    /\ ~IsNull(selectedLLMNode)
    /\ Len(Val(getMultiSeriesLineData)) > 0

\* the selection state of the render whose handlers are being called
Selection ==
    [llm |-> selectedLLMNode, psych |-> selectedPsychNode, theory |-> selectedTheory]

onLLMNodeClick_NoToggle(id) ==
    /\ ~loading
    /\ id \in NodeIds("llm")
    /\ selectedLLMNode' = Some(id)
    /\ result' = [fn |-> "onLLMNodeClick", arg |-> Some(id), value |-> Selection]
    /\ UNCHANGED <<hookVars, selectedPsychNode, selectedTheory>>

onLLMNodeClick(id) ==
    /\ ~loading
    /\ id \in NodeIds("llm")
    /\ selectedLLMNode' = IF selectedLLMNode = Some(id) THEN Null ELSE Some(id)
    /\ result' = [fn |-> "onLLMNodeClick", arg |-> Some(id), value |-> Selection]
    /\ UNCHANGED <<hookVars, selectedPsychNode, selectedTheory>>

onPsychNodeClick_KeepTheory(id) ==
    /\ ~loading
    /\ id \in NodeIds("psych")
    /\ selectedPsychNode' = IF selectedPsychNode = Some(id) THEN Null ELSE Some(id)
    /\ result' = [fn |-> "onPsychNodeClick", arg |-> Some(id), value |-> Selection]
    /\ UNCHANGED <<hookVars, selectedLLMNode, selectedTheory>>

onPsychNodeClick(id) ==
    /\ ~loading
    /\ id \in NodeIds("psych")
    /\ selectedPsychNode' = IF selectedPsychNode = Some(id) THEN Null ELSE Some(id)
    /\ selectedTheory' = Null
    /\ result' = [fn |-> "onPsychNodeClick", arg |-> Some(id), value |-> Selection]
    /\ UNCHANGED <<hookVars, selectedLLMNode>>

onTheoryClick(theory) ==
    /\ ~loading
    /\ theory \in ClickableTheories
    /\ selectedTheory' = IF selectedTheory = Some(theory) THEN Null ELSE Some(theory)
    /\ result' = [fn |-> "onTheoryClick", arg |-> Some(theory), value |-> Selection]
    /\ UNCHANGED <<hookVars, selectedLLMNode, selectedPsychNode>>

handleResetLineChart_ResetAll ==
    /\ ~loading
    /\ ResetShown
    /\ selectedLLMNode' = Null
    /\ selectedPsychNode' = Null
    /\ selectedTheory' = Null
    /\ result' = [fn |-> "handleResetLineChart", arg |-> Null, value |-> Selection]
    /\ UNCHANGED hookVars

\* onReset of the CitationLineChart, whose button is rendered when isMultiSeries
handleResetLineChart ==
    /\ ~loading
    /\ ResetShown
    /\ selectedLLMNode' = Null
    /\ result' = [fn |-> "handleResetLineChart", arg |-> Null, value |-> Selection]
    /\ UNCHANGED <<hookVars, selectedPsychNode, selectedTheory>>

Init ==
    /\ loading = TRUE
    /\ llmClusters = <<>>
    /\ psychClusters = <<>>
    /\ theoryPool = <<>>
    /\ secondaryClusters = <<>>
    /\ papersInfo = Null
    /\ filteredPapers = Null
    /\ titleToPaperId = <<>>
    /\ fetches = [f \in Range(Loaders) |-> "pending"]
    /\ NothingSelected
    /\ result = NoCall

Next ==
    \/ \E f \in Range(Loaders) : FetchFulfilled(f)
    \/ \E f \in Range(Loaders) : FetchRejected(f)
    \/ LoadDataResolved
    \/ LoadDataRejected
    \/ \E k \in Range(LLMKeys) : onLLMNodeClick(LLMPrefix \o k)
    \/ \E k \in Range(PsychKeys) : onPsychNodeClick(PsychPrefix \o k)
    \/ \E theory \in ClickableTheories : onTheoryClick(theory)
    \/ handleResetLineChart

Spec == Init /\ [][Next]_vars

-----------------------------------------------------------------------------
(* The selection state machine of the Dashboard *)

\* C2: a click on the node that is selected on its axis clears that axis, and a
\* click on an LLM node while no LLM node is selected selects it, so that two
\* clicks on the same LLM node from Idle end in Idle.
C2_ToggleClears ==
    /\ result.fn = "onLLMNodeClick" =>
          /\ result.value.llm = result.arg => IsNull(selectedLLMNode)
          /\ IsNull(result.value.llm) => selectedLLMNode = result.arg
    /\ result.fn = "onPsychNodeClick" =>
          (result.value.psych = result.arg => IsNull(selectedPsychNode))

\* the selected LLM node was clicked again while a Psychology node is selected
C2_Witness ==
    /\ result.fn = "onLLMNodeClick"
    /\ result.value.llm = result.arg
    /\ IsNull(selectedLLMNode)
    /\ ~IsNull(selectedPsychNode)

\* C3: a click on another Psychology node while a Psychology node and a theory
\* are selected selects the clicked node and leaves no theory selected.
C3_NewPsychClearsTheory ==
    (/\ result.fn = "onPsychNodeClick"
     /\ ~IsNull(result.value.psych)
     /\ ~IsNull(result.value.theory)
     /\ result.value.psych # result.arg)
    => /\ selectedPsychNode = result.arg
       /\ IsNull(selectedTheory)

C3_Witness ==
    /\ result.fn = "onPsychNodeClick"
    /\ ~IsNull(result.value.psych)
    /\ ~IsNull(result.value.theory)
    /\ result.value.psych # result.arg
    /\ selectedPsychNode = result.arg
    /\ IsNull(selectedTheory)

\* C4: a click on an LLM node and a reset leave the selected Psychology node and
\* the selected theory as they were; a click on a Psychology node and a click on
\* a theory leave the selected LLM node as it was.
C4_AxesOrthogonal ==
    /\ result.fn \in {"onLLMNodeClick", "handleResetLineChart"} =>
          /\ selectedPsychNode = result.value.psych
          /\ selectedTheory = result.value.theory
    /\ result.fn \in {"onPsychNodeClick", "onTheoryClick"} =>
          selectedLLMNode = result.value.llm

\* a reset ran while a Psychology node and a theory were selected
C4_Witness ==
    /\ result.fn = "handleResetLineChart"
    /\ ~IsNull(result.value.llm)
    /\ IsNull(selectedLLMNode)
    /\ ~IsNull(selectedPsychNode)
    /\ ~IsNull(selectedTheory)

\* C5: a theory is selected only while a Psychology node is selected.
C5_TheoryUnderPsych ==
    ~IsNull(selectedTheory) => ~IsNull(selectedPsychNode)

\* a theory was just selected in the table of the selected Psychology node
C5_Witness ==
    /\ result.fn = "onTheoryClick"
    /\ selectedTheory = result.arg
    /\ ~IsNull(selectedPsychNode)

-----------------------------------------------------------------------------
(* getTheoryTableData and the TheoryTable on the pools and subtopics of one topic *)

Name_SchemaTheories == <<"S", "c", "h", "e", "m", "a", " ", "T", "h", "e", "o", "r", "i", "e", "s">>

CitationCounts == {1, 5, 10}

\* the theory names of a pool, in declaration order
TheoryNameOrders ==
    {<<Name_Schema, Name_DualProcess, Name_Attachment, Name_Prospect, Name_SchemaTheories>>,
     <<Name_SchemaTheories, Name_DualProcess, Name_Schema, Name_Attachment, Name_Prospect>>}

PoolOf(names, c) ==
    [i \in 1..Len(c) |-> [key |-> names[i], citation |-> c[i], docs |-> <<>>]]

\* the pools of at most MaxTheories theories
TheoryPools ==
    UNION {{PoolOf(names, c) : names \in TheoryNameOrders, c \in [1..n -> CitationCounts]} :
           n \in 0..MaxTheories}

\* the subtopics of the topic, in declaration order
SubtopicLayouts ==
    {<<[key |-> ClusterKey(0), topic |-> Topic_Cognition,
        theories |-> <<Name_MentalSchemas, Name_DualProcess, Name_Unknown>>],
       [key |-> ClusterKey(1), topic |-> Topic_Development,
        theories |-> <<Name_Attachment, Name_Schema, Name_Prospect>>]>>,
     <<[key |-> ClusterKey(0), topic |-> Topic_Cognition,
        theories |-> <<Name_Attachment>>],
       [key |-> ClusterKey(1), topic |-> Topic_Development,
        theories |-> <<Name_DualProcess, Name_SchemaTheories>>],
       [key |-> ClusterKey(2), topic |-> Topic_Cognition,
        theories |-> <<Name_Schema, Name_Prospect>>]>>,
     <<[key |-> ClusterKey(0), topic |-> Topic_Decision,
        theories |-> <<Name_Prospect, Name_Attachment, Name_DualProcess, Name_Schema>>]>>,
     <<>>}

InitTable ==
    /\ loading = FALSE
    /\ llmClusters = <<>>
    /\ psychClusters = <<>>
    /\ papersInfo = Some(<<>>)
    /\ filteredPapers = Some(<<>>)
    /\ titleToPaperId = <<>>
    /\ fetches = [f \in Range(Loaders) |-> "fulfilled"]
    /\ \E pool \in TheoryPools : theoryPool = <<[key |-> ClusterKey(0), theories |-> pool]>>
    /\ \E subs \in SubtopicLayouts :
           secondaryClusters = <<[key |-> ClusterKey(0), subs |-> subs]>>
    /\ NothingSelected
    /\ result = NoCall

CallGetTheoryTableData_SortsPool(psychClusterId) ==
    /\ ~loading
    /\ result' = [fn |-> "getTheoryTableData", arg |-> Some(psychClusterId),
                  value |-> getTheoryTableData(psychClusterId)]
    /\ theoryPool' =
          [k \in 1..Len(theoryPool) |->
              [key |-> theoryPool[k].key,
               theories |-> StableSort(theoryPool[k].theories,
                               [i \in 1..Len(theoryPool[k].theories) |->
                                   <<0, 0 - theoryPool[k].theories[i].citation>>])]]
    /\ UNCHANGED <<loading, llmClusters, psychClusters, papersInfo, filteredPapers,
                   secondaryClusters, titleToPaperId, fetches, dashVars>>

CallGetTheoryTableData(psychClusterId) ==
    /\ ~loading
    /\ result' = [fn |-> "getTheoryTableData", arg |-> Some(psychClusterId),
                  value |-> getTheoryTableData(psychClusterId)]
    /\ UNCHANGED <<hookVars, dashVars>>

\* TheoryTable: the data array after the render and the rows shown
sortedData_InPlace(data, sortMode) ==
    IF sortMode = "citations"
    THEN [data |-> SortByCitationsDesc(data), shown |-> SortByCitationsDesc(data)]
    ELSE [data |-> data, shown |-> data]

\* sortMode === 'citations' ? [...data].sort((a, b) => b.citations - a.citations) : data
sortedData(data, sortMode) ==
    IF sortMode = "citations"
    THEN [data |-> data, shown |-> SortByCitationsDesc(data)]
    ELSE [data |-> data, shown |-> data]

\* the TheoryTable renders the rows it was given in the mode of the button pressed
TableRender(received, data, was, mode) ==
    result' = [fn |-> "TheoryTable",
               arg |-> [sortMode |-> mode, was |-> was, received |-> received],
               value |-> sortedData(data, mode)]

\* a sort button of the TheoryTable: setSortMode(mode), then the table renders again
setSortMode(mode) ==
    /\ ~loading
    /\ \/ /\ result.fn = "getTheoryTableData"
          /\ TableRender(result.value, result.value, "subtopic", mode)
       \/ /\ result.fn = "TheoryTable"
          /\ TableRender(result.arg.received, result.value.data, result.arg.sortMode, mode)
    /\ UNCHANGED <<hookVars, dashVars>>

\* a key that is not of the form "Cluster N"
OtherKey == <<"O", "t", "h", "e", "r">>

NextTable ==
    \/ \E k \in {ClusterKey(0), ClusterKey(1), OtherKey} : CallGetTheoryTableData(k)
    \/ \E mode \in {"subtopic", "citations"} : setSortMode(mode)

SpecTable == InitTable /\ [][NextTable]_vars

\* the pool and the subtopics of the one topic of SpecTable
ThePool == theoryPool[1].theories
TheSubtopics == secondaryClusters[1].subs

\* the table was computed for the topic that has the pool
TableOfThePool ==
    /\ result.fn = "getTheoryTableData"
    /\ result.arg = Some(ClusterKey(0))

\* the place of theory i of the pool by descending citations, ties by declaration order
PoolRank(pool, i) ==
    Cardinality({j \in 1..Len(pool) :
        \/ pool[j].citation > pool[i].citation
        \/ (pool[j].citation = pool[i].citation /\ j < i)}) + 1

FirstThreeNames(pool) == {pool[i].key : i \in {i \in 1..Len(pool) : PoolRank(pool, i) <= 3}}

MarkedTheories(rows) == {rows[i].theory : i \in {i \in 1..Len(rows) : rows[i].isTopThree}}
RowTheories(rows) == {rows[i].theory : i \in 1..Len(rows)}

\* C11: a row is marked isTopThree exactly when its theory is among the first
\* three of the topic's theories by descending citations, ties keeping the
\* declaration order; with citations 10, 10, 5, 1 the first three are marked
\* and the fourth is not.
C11_TopThreeStable ==
    TableOfThePool =>
        \A i \in 1..Len(result.value) :
            result.value[i].isTopThree <=> result.value[i].theory \in FirstThreeNames(ThePool)

\* four theories with citations 10, 10, 5, 1, each in a row: three marked, the fourth not
C11_Witness ==
    /\ TableOfThePool
    /\ [i \in 1..Len(ThePool) |-> ThePool[i].citation] = <<10, 10, 5, 1>>
    /\ MarkedTheories(result.value) = {ThePool[1].key, ThePool[2].key, ThePool[3].key}
    /\ \E i \in 1..Len(result.value) :
          result.value[i].theory = ThePool[4].key /\ ~result.value[i].isTopThree

\* C12 as stated: exactly 3 theories are marked in the table of a topic with at
\* least 3 theories, and every row is marked when the topic has fewer.
C12_AsStated ==
    TableOfThePool =>
        IF Len(ThePool) >= 3
        THEN Cardinality(MarkedTheories(result.value)) = 3
        ELSE \A i \in 1..Len(result.value) : result.value[i].isTopThree

\* C12: the marked theories are the theories of the topic's top three (all of
\* them when the topic has fewer than 3) that have a row: never more than 3,
\* exactly 3 when each of the top three has a row, and every row when the
\* topic has fewer than 3 theories.
C12_MarkedAreTopThree ==
    TableOfThePool =>
        /\ Cardinality(MarkedTheories(result.value)) <= 3
        /\ Cardinality(FirstThreeNames(ThePool)) = (IF Len(ThePool) < 3 THEN Len(ThePool) ELSE 3)
        /\ MarkedTheories(result.value)
              = FirstThreeNames(ThePool) \cap RowTheories(result.value)
        /\ Len(ThePool) < 3 => \A i \in 1..Len(result.value) : result.value[i].isTopThree

\* a topic of at least 3 theories whose table marks fewer than 3, one of the
\* top three having no row
C12_Witness ==
    /\ TableOfThePool
    /\ Len(ThePool) >= 3
    /\ Len(result.value) >= 2
    /\ Cardinality(MarkedTheories(result.value)) = 2

\* the normalized form the names of SpecTable must have: lower case, a trailing
\* "theories" as "theory", a leading "mental " dropped
ExpectedNormalForm(name) ==
    CASE name = Name_Schema -> <<"s", "c", "h", "e", "m", "a", " ", "t", "h", "e", "o", "r", "y">>
      [] name = Name_SchemaTheories -> <<"s", "c", "h", "e", "m", "a", " ", "t", "h", "e", "o", "r", "y">>
      [] name = Name_MentalSchemas -> <<"s", "c", "h", "e", "m", "a", " ", "t", "h", "e", "o", "r", "y">>
      [] name = Name_DualProcess -> <<"d", "u", "a", "l", " ", "p", "r", "o", "c", "e", "s", "s", " ", "t", "h", "e", "o", "r", "y">>
      [] name = Name_Attachment -> <<"a", "t", "t", "a", "c", "h", "m", "e", "n", "t", " ", "t", "h", "e", "o", "r", "y">>
      [] name = Name_Prospect -> <<"p", "r", "o", "s", "p", "e", "c", "t", " ", "t", "h", "e", "o", "r", "y">>
      [] name = Name_Unknown -> <<"u", "n", "k", "n", "o", "w", "n", " ", "t", "h", "e", "o", "r", "y">>

PoolNames(pool) == {pool[i].key : i \in 1..Len(pool)}

\* the theories of the pool that the name t of a subtopic may resolve to
Candidates(pool, t) ==
    IF t \in PoolNames(pool) THEN {t}
    ELSE {n \in PoolNames(pool) : ExpectedNormalForm(n) = ExpectedNormalForm(t)}

\* the (subtopic, position) pairs of the topic, and those whose name resolves
SubtopicPairs(subs) ==
    UNION {{<<s, k>> : k \in 1..Len(subs[s].theories)} : s \in 1..Len(subs)}

PairName(subs, p) == subs[p[1]].theories[p[2]]

ResolvingPairs(subs, pool) ==
    {p \in SubtopicPairs(subs) : Candidates(pool, PairName(subs, p)) # {}}

\* the row is a row of the pair p: its subtopic's label, a theory the name may
\* resolve to, and that theory's citations
RowOfPair(row, subs, pool, p) ==
    /\ row.subtopic = subs[p[1]].topic
    /\ row.theory \in Candidates(pool, PairName(subs, p))
    /\ row.citations = Lookup(pool, row.theory).citation

C14_OneRowPerResolvedPair ==
    TableOfThePool =>
        /\ Len(result.value) = Cardinality(ResolvingPairs(TheSubtopics, ThePool))
        /\ \A p \in ResolvingPairs(TheSubtopics, ThePool) :
              \E i \in 1..Len(result.value) :
                  RowOfPair(result.value[i], TheSubtopics, ThePool, p)
        /\ \A i \in 1..Len(result.value) :
              \E p \in ResolvingPairs(TheSubtopics, ThePool) :
                  RowOfPair(result.value[i], TheSubtopics, ThePool, p)

\* a subtopic with an exact name, a name that resolves by its normalized form
\* and a name that does not resolve: two rows for it
C14_Witness ==
    /\ TableOfThePool
    /\ Len(TheSubtopics) = 2
    /\ TheSubtopics[1].theories = <<Name_MentalSchemas, Name_DualProcess, Name_Unknown>>
    /\ Cardinality({i \in 1..Len(result.value) :
                       result.value[i].subtopic = TheSubtopics[1].topic}) = 2
    /\ Len(result.value) = 5

\* the number of rows of the subtopics before subtopic i
RECURSIVE RowsBefore(_, _, _)
RowsBefore(subs, pool, i) ==
    IF i <= 1 THEN 0
    ELSE RowsBefore(subs, pool, i - 1)
         + Cardinality({p \in ResolvingPairs(subs, pool) : p[1] = i - 1})

\* C15 as stated: the rows are in the declaration order of their subtopics, and
\* the rows of one subtopic are in descending order of citations.
C15_AsStated ==
    TableOfThePool =>
        \A s \in 1..Len(TheSubtopics) :
            \A k \in 1..Cardinality({p \in ResolvingPairs(TheSubtopics, ThePool) : p[1] = s}) :
                LET at == RowsBefore(TheSubtopics, ThePool, s) + k IN
                /\ at <= Len(result.value)
                /\ result.value[at].subtopic = TheSubtopics[s].topic
                /\ k > 1 => result.value[at - 1].citations >= result.value[at].citations

\* three subtopics, the first and the third with the same label: the rows of
\* the second subtopic come before the row of the first
C15_Witness ==
    /\ TableOfThePool
    /\ Len(TheSubtopics) = 3
    /\ TheSubtopics[1].topic = TheSubtopics[3].topic
    /\ Len(result.value) >= 2
    /\ \E p \in ResolvingPairs(TheSubtopics, ThePool) : p[1] = 1
    /\ result.value[1].subtopic = TheSubtopics[2].topic

\* C16: in the by-citations mode the table shows the rows it received, each as
\* often as received, in descending order of citations; the rows it received
\* are as they were; in the by-subtopic mode, also after the by-citations
\* mode, it shows them in the order received.
C16_PureResort ==
    result.fn = "TheoryTable" =>
        /\ result.value.data = result.arg.received
        /\ result.arg.sortMode = "subtopic" => result.value.shown = result.arg.received
        /\ result.arg.sortMode = "citations" =>
              /\ Len(result.value.shown) = Len(result.arg.received)
              /\ \A r \in Range(result.arg.received) :
                    Cardinality({i \in 1..Len(result.value.shown) : result.value.shown[i] = r})
                      = Cardinality({i \in 1..Len(result.arg.received) :
                                        result.arg.received[i] = r})
              /\ \A i \in 1..Len(result.value.shown) : \A j \in 1..Len(result.value.shown) :
                    i < j => result.value.shown[i].citations >= result.value.shown[j].citations

\* back in the by-subtopic mode after the by-citations mode, the rows received
\* not being in descending order of citations
C16_Witness ==
    /\ result.fn = "TheoryTable"
    /\ result.arg.was = "citations"
    /\ result.arg.sortMode = "subtopic"
    /\ result.value.shown = result.arg.received
    /\ \E i \in 1..Len(result.arg.received) : \E j \in 1..Len(result.arg.received) :
          i < j /\ result.arg.received[i].citations < result.arg.received[j].citations

-----------------------------------------------------------------------------
(* getTheoryDistribution on loaded citations, titles and theory documents *)

\* the reference list of one LLM paper
DistributionRefs == {Null, RefsFirst, RefsLast, RefsAll}

\* the paper metadata: every Psychology paper titled, the first one untitled, none
RefsInfos ==
    {ServerRefsInfo,
     [j \in 1..NumPsychPapers |->
         [title |-> IF j = 1 THEN Null ELSE Some(RefTitle(j)),
          paperId |-> Some(PsychPaperSeq[j])]],
     <<>>}

\* the document titles of a theory
DocLists ==
    {<<<<"P", "A", "P", "E", "R", " ", "1">>, Title_Orphan>>, <<<<"p", "a", "p", "e", "r", " ", "2", " ">>>>, <<<<" ", "P", "a", "p", "e", "r", " ", "1">>, <<"P", "a", "p", "e", "r", " ", "2">>, Title_Orphan>>, <<>>}

\* two topics with theories, "Schema Theory" being a theory of both
DistributionPools ==
    {<<[key |-> ClusterKey(0),
        theories |-> <<[key |-> Name_Schema, citation |-> 10, docs |-> d]>>],
       [key |-> ClusterKey(1),
        theories |-> <<[key |-> Name_Schema, citation |-> 3, docs |-> <<<<"P", "a", "p", "e", "r", " ", "2">>>>],
                       [key |-> Name_Prospect, citation |-> 7, docs |-> e]>>]>> :
     d \in DocLists, e \in {<<<<"P", "a", "p", "e", "r", " ", "1">>>>, <<Title_Orphan>>}}

InitDistribution ==
    /\ loading = FALSE
    /\ \E a \in Assignments(NumLLMPapers, NumLLMTopics) :
           llmClusters = ClustersOf(LLMKeys, LLMPaperSeq, a)
    /\ psychClusters = ClustersOf(PsychKeys, PsychPaperSeq, PsychRoundRobin)
    /\ \E refs \in [1..NumLLMPapers -> DistributionRefs] :
           filteredPapers = Some(FilteredPapersOf(refs))
    /\ papersInfo = Some(<<>>)
    /\ theoryPool \in DistributionPools
    /\ secondaryClusters = <<>>
    /\ \E refsInfo \in RefsInfos : titleToPaperId = TitleMapOf(refsInfo)
    /\ fetches = [f \in Range(Loaders) |-> "fulfilled"]
    /\ NothingSelected
    /\ result = NoCall

CallGetTheoryDistribution(theoryName) ==
    /\ ~loading
    /\ result' = [fn |-> "getTheoryDistribution", arg |-> Some(theoryName),
                  value |-> getTheoryDistribution(theoryName)]
    /\ UNCHANGED <<hookVars, dashVars>>

NextDistribution ==
    \E theoryName \in {Name_Schema, Name_Prospect, Name_Unknown} :
        CallGetTheoryDistribution(theoryName)

SpecDistribution == InitDistribution /\ [][NextDistribution]_vars

\* the distribution of a theory that some pool holds was computed
DistributionOfKnownTheory ==
    /\ result.fn = "getTheoryDistribution"
    /\ \E k \in 1..Len(theoryPool) : Val(result.arg) \in PoolNames(theoryPool[k].theories)

\* one row per LLM topic, in descending order of citations
OneRowPerTopicSorted(rows) ==
    /\ Len(rows) = Len(llmClusters)
    /\ {rows[i].topic : i \in 1..Len(rows)} = {llmClusters[l].key : l \in 1..Len(llmClusters)}
    /\ \A i \in 1..Len(rows) : \A j \in 1..Len(rows) :
          i < j => rows[i].citations >= rows[j].citations

\* C17 as stated: for a theory of the Theory relation the distribution has one
\* row per LLM topic, topics of count 0 included, in descending order of count.
C17_AsStated ==
    DistributionOfKnownTheory => OneRowPerTopicSorted(result.value)

\* C17: for a theory of the Theory relation the distribution has one row per
\* LLM topic, topics of count 0 included, in descending order of count, when
\* the title map has an entry; it has no row when the title map is empty.
C17_OneRowPerTopic ==
    DistributionOfKnownTheory =>
        IF Len(titleToPaperId) > 0
        THEN OneRowPerTopicSorted(result.value)
        ELSE result.value = <<>>

\* a distribution with a topic of count 0 after a topic that has citations
C17_Witness ==
    /\ DistributionOfKnownTheory
    /\ Len(result.value) = Len(llmClusters)
    /\ Len(result.value) >= 2
    /\ result.value[1].citations >= 1
    /\ result.value[Len(result.value)].citations = 0

\* the key of the title of Psychology paper j: lower case, no outer spaces
ExpectedTitleKeyOfPaper(j) == <<"p", "a", "p", "e", "r", " ">> \o NumToStr(j)

\* the key a document title of DocLists must be looked up under
ExpectedTitleKey(docTitle) ==
    CASE docTitle = <<"P", "A", "P", "E", "R", " ", "1">> -> <<"p", "a", "p", "e", "r", " ", "1">>
      [] docTitle = <<" ", "P", "a", "p", "e", "r", " ", "1">> -> <<"p", "a", "p", "e", "r", " ", "1">>
      [] docTitle = <<"P", "a", "p", "e", "r", " ", "1">> -> <<"p", "a", "p", "e", "r", " ", "1">>
      [] docTitle = <<"p", "a", "p", "e", "r", " ", "2", " ">> -> <<"p", "a", "p", "e", "r", " ", "2">>
      [] docTitle = <<"P", "a", "p", "e", "r", " ", "2">> -> <<"p", "a", "p", "e", "r", " ", "2">>
      [] docTitle = Title_Orphan -> <<"o", "r", "p", "h", "a", "n", " ", "t", "i", "t", "l", "e">>

\* the documents of the theory: those of the first topic that has the theory
DocsOfTheory(theoryName) ==
    Lookup(theoryPool[CHOOSE k \in 1..Len(theoryPool) :
                         /\ theoryName \in PoolNames(theoryPool[k].theories)
                         /\ \A m \in 1..(k - 1) :
                               theoryName \notin PoolNames(theoryPool[m].theories)].theories,
           theoryName).docs

\* the Psychology papers with a titled metadata entry whose title matches a
\* document title after lower-casing and trimming both
ResolvedPapers(docs) ==
    {PsychPaperSeq[j] : j \in {j \in 1..NumPsychPapers :
        /\ \E e \in Range(titleToPaperId) : e.paperId = PsychPaperSeq[j]
        /\ \E i \in 1..Len(docs) : ExpectedTitleKey(docs[i]) = ExpectedTitleKeyOfPaper(j)}}

\* the citation edges from the papers of the LLM topic to the papers of the set
EdgesInto(topic, targets) ==
    {e \in DocIds(Lookup(llmClusters, topic)) \X targets :
        \E i \in 1..Len(Val(filteredPapers)) :
            /\ Val(filteredPapers)[i].paperId = e[1]
            /\ ~IsNull(Val(filteredPapers)[i].references)
            /\ e[2] \in Range(Val(Val(filteredPapers)[i].references))}

\* C18: the count of each LLM topic is the number of citation edges from its
\* papers to the Psychology papers whose title equals a document title of the
\* theory after lower-casing and trimming both; a document title that matches
\* no paper adds nothing.
C18_TitleResolution ==
    DistributionOfKnownTheory =>
        \A i \in 1..Len(result.value) :
            result.value[i].citations
              = Cardinality(EdgesInto(result.value[i].topic,
                                      ResolvedPapers(DocsOfTheory(Val(result.arg)))))

\* documents "PAPER 1" and an orphan title: paper 1 resolves, and a topic counts its citations
C18_Witness ==
    /\ DistributionOfKnownTheory
    /\ DocsOfTheory(Val(result.arg)) = <<<<"P", "A", "P", "E", "R", " ", "1">>, Title_Orphan>>
    /\ ResolvedPapers(DocsOfTheory(Val(result.arg))) = {PsychPaperSeq[1]}
    /\ Len(result.value) >= 1
    /\ result.value[1].citations >= 1

-----------------------------------------------------------------------------
(* The initial load as seen by the Dashboard *)

\* C19 as stated: no view other than the loading view is rendered, and so no
\* aggregation runs, while a fetch of the initial load is pending.
C19_AsStated ==
    DashboardView # "loading" => \A f \in Range(Loaders) : fetches[f] # "pending"

\* the catch block has run on the first rejection while another fetch is pending
C19_Witness ==
    /\ ~loading
    /\ \E f \in Range(Loaders) : fetches[f] = "rejected"
    /\ \E f \in Range(Loaders) : fetches[f] = "pending"

\* C20 as stated: once a fetch of the initial load has failed, the graph and the
\* charts are never rendered; the loading view is followed by a failure view.
C20_AsStated ==
    (\E f \in Range(Loaders) : fetches[f] = "rejected") => DashboardView # "dashboard"

\* a fetch has failed, no relation was set, and the graph is rendered without nodes
C20_Witness ==
    /\ \E f \in Range(Loaders) : fetches[f] = "rejected"
    /\ DashboardView = "dashboard"
    /\ getBipartiteNodes = <<>>
    /\ IsNull(filteredPapers)

-----------------------------------------------------------------------------
(* Keys that the loaded relations do not hold *)

\* the table was asked for a topic key that neither the Theory relation nor the
\* subtopic relation holds
TableOfAbsentTopic ==
    /\ result.fn = "getTheoryTableData"
    /\ ~HasKey(theoryPool, Val(result.arg))
    /\ ~HasKey(secondaryClusters, Val(result.arg))

\* C21 as stated: getTheoryTableData of a Psychology topic key that the loaded
\* relations do not hold returns no row: no error, and no row of another topic.
C21_AsStated ==
    TableOfAbsentTopic => result.value = <<>>

\* the key "Other" is absent, and the rows of topic "Cluster 0" are returned
C21_Witness ==
    /\ TableOfAbsentTopic
    /\ Val(result.arg) = OtherKey
    /\ Len(result.value) >= 1
    /\ result.value = getTheoryTableData(ClusterKey(0))

\* the series was asked for an LLM topic key that the LLM topics do not hold
SeriesOfAbsentTopic ==
    /\ result.fn = "getCitationTimeSeries"
    /\ ~IsNull(result.arg)
    /\ ~HasKey(llmClusters, Val(result.arg))

\* C22 as stated: getCitationTimeSeries of an LLM topic key that the loaded LLM
\* topics do not hold returns an empty series: no error, no series of other topics.
C22_AsStated ==
    SeriesOfAbsentTopic => result.value = <<>>

\* the key is absent, and the series over the papers of all topics is returned
C22_Witness ==
    /\ SeriesOfAbsentTopic
    /\ Len(result.value) >= 1
    /\ result.value = getCitationTimeSeries(Null)

-----------------------------------------------------------------------------
(* getBipartiteNodes over topics keyed in several ways *)

\* the number of the first key of a side: keys counted from 0, from 1, from 9
KeyOffsets == {0, 1, 9}

\* the keys of n topics: "Cluster o" .. "Cluster o+n-1", the last one replaced
\* by a key without a number when named is FALSE
TopicKeys(n, o, named) ==
    [k \in 1..n |-> IF k = n /\ ~named THEN OtherKey ELSE ClusterKey(o + k - 1)]

TopicKeyLayouts(n) ==
    {TopicKeys(n, o, named) : o \in KeyOffsets, named \in BOOLEAN}

InitNodes ==
    /\ loading = FALSE
    /\ \E keys \in TopicKeyLayouts(NumLLMTopics) :
       \E a \in Assignments(NumLLMPapers, NumLLMTopics) :
           llmClusters = ClustersOf(keys, LLMPaperSeq, a)
    /\ \E keys \in TopicKeyLayouts(NumPsychTopics) :
           psychClusters = ClustersOf(keys, PsychPaperSeq, PsychRoundRobin)
    /\ filteredPapers = Some(FilteredPapersOf([i \in 1..NumLLMPapers |-> RefsAll]))
    /\ papersInfo = Some(<<>>)
    /\ NothingElseLoaded
    /\ NothingSelected
    /\ result = NoCall

CallGetBipartiteNodes ==
    /\ ~loading
    /\ result' = [fn |-> "getBipartiteNodes", arg |-> Null, value |-> getBipartiteNodes]
    /\ UNCHANGED <<hookVars, dashVars>>

NextNodes ==
    \/ CallGetBipartiteNodes
    \/ CallGetBipartiteEdges

SpecNodes == InitNodes /\ [][NextNodes]_vars

\* the topics of both sides in the order of the nodes
TopicsInNodeOrder == llmClusters \o psychClusters

\* the number of topics on the side of node i
SideSize(i) == IF i <= Len(llmClusters) THEN Len(llmClusters) ELSE Len(psychClusters)

\* the keys on the side of node i
SideKeys(i) ==
    IF i <= Len(llmClusters) THEN {llmClusters[k].key : k \in 1..Len(llmClusters)}
    ELSE {psychClusters[k].key : k \in 1..Len(psychClusters)}

\* the largest number a key of the layouts carries
MaxKeyNumber == 9 + NumLLMTopics + NumPsychTopics

\* C23 as stated: the cluster index of every node is an ordinal in 0..N-1, N
\* being the number of topics on the side of the node.
C23_AsStated ==
    result.fn = "getBipartiteNodes" =>
        \A i \in 1..Len(result.value) : result.value[i].cluster \in 0..(SideSize(i) - 1)

\* C23: the cluster index of every node is a function of the key of its topic
\* alone: the number n for the key "Cluster n", and 0 for a key that has no
\* number; it is an ordinal in 0..N-1 when the keys of the side are
\* "Cluster 0" .. "Cluster N-1".
C23_IndexFromKey ==
    result.fn = "getBipartiteNodes" =>
        /\ Len(result.value) = Len(TopicsInNodeOrder)
        /\ \A i \in 1..Len(result.value) :
              /\ \A n \in 0..MaxKeyNumber :
                    TopicsInNodeOrder[i].key = ClusterKey(n) => result.value[i].cluster = n
              /\ TopicsInNodeOrder[i].key = OtherKey => result.value[i].cluster = 0
              /\ SideKeys(i) = {ClusterKey(n) : n \in 0..(SideSize(i) - 1)} =>
                    result.value[i].cluster \in 0..(SideSize(i) - 1)

\* a side keyed from "Cluster 9": its second node has index 10, outside 0..N-1
C23_Witness ==
    /\ result.fn = "getBipartiteNodes"
    /\ Len(llmClusters) >= 2
    /\ llmClusters[2].key = ClusterKey(10)
    /\ result.value[2].cluster = 10
    /\ SideKeys(Len(result.value)) = {ClusterKey(n) : n \in 0..(Len(psychClusters) - 1)}
    /\ result.value[Len(result.value)].cluster = Len(psychClusters) - 1

-----------------------------------------------------------------------------
(* The query functions and the selection handlers after a successful load *)

\* the state that LoadDataResolved leaves, nothing selected yet
InitQueries ==
    /\ loading = FALSE
    /\ llmClusters = ClustersOf(LLMKeys, LLMPaperSeq, LLMRoundRobin)
    /\ psychClusters = ClustersOf(PsychKeys, PsychPaperSeq, PsychRoundRobin)
    /\ theoryPool = ServerTheoryPool
    /\ secondaryClusters = ServerSecondaryClusters
    /\ \E prof \in [1..NumLLMPapers -> ServerPaperProfiles] :
          /\ papersInfo = Some(PapersInfoOf([i \in 1..NumLLMPapers |-> prof[i].info]))
          /\ filteredPapers =
                Some(FilteredPapersOf([i \in 1..NumLLMPapers |-> prof[i].references]))
    /\ titleToPaperId = TitleMapOf(ServerRefsInfo)
    /\ fetches = [f \in Range(Loaders) |-> "fulfilled"]
    /\ NothingSelected
    /\ result = NoCall

NextQueries ==
    \/ CallGetBipartiteNodes
    \/ CallGetBipartiteEdges
    \/ CallGetCitationTimeSeries(Null)
    \/ \E k \in Range(LLMKeys) : CallGetCitationTimeSeries(Some(k))
    \/ \E k \in Range(LLMKeys) : CallGetMultiSeriesCitationData(k)
    \/ \E k \in Range(PsychKeys) : CallGetTheoryTableData(k)
    \/ \E theoryName \in {Name_Schema, Name_Prospect} : CallGetTheoryDistribution(theoryName)
    \/ \E k \in Range(LLMKeys) : onLLMNodeClick(LLMPrefix \o k)
    \/ \E k \in Range(PsychKeys) : onPsychNodeClick(PsychPrefix \o k)
    \/ \E theory \in ClickableTheories : onTheoryClick(theory)
    \/ handleResetLineChart

SpecQueries == InitQueries /\ [][NextQueries]_vars

\* the loaded relations
Relations ==
    <<llmClusters, psychClusters, papersInfo, filteredPapers, theoryPool,
      secondaryClusters, titleToPaperId>>

\* the call recorded in result, made again in the current state
CalledAgain ==
    CASE result.fn = "getBipartiteNodes" -> getBipartiteNodes
      [] result.fn = "getBipartiteEdges" -> getBipartiteEdges
      [] result.fn = "getCitationTimeSeries" -> getCitationTimeSeries(result.arg)
      [] result.fn = "getMultiSeriesCitationData" -> getMultiSeriesCitationData(Val(result.arg))
      [] result.fn = "getTheoryTableData" -> getTheoryTableData(Val(result.arg))
      [] result.fn = "getTheoryDistribution" -> getTheoryDistribution(Val(result.arg))
      [] OTHER -> result.value

-----------------------------------------------------------------------------
(* The reset button of the line chart *)

\* a paper of the selected LLM topic has a resolvable month and cites a paper
\* of some Psychology topic
SelectedTopicHasDatedCitation ==
    /\ ~IsNull(selectedLLMNode)
    /\ ~IsNull(filteredPapers)
    /\ ~IsNull(papersInfo)
    /\ \E i \in 1..Len(Val(filteredPapers)) :
          /\ \E t \in 1..Len(llmClusters) :
                /\ LLMPrefix \o llmClusters[t].key = Val(selectedLLMNode)
                /\ Val(filteredPapers)[i].paperId \in Range(llmClusters[t].docs)
          /\ ~IsNull(Val(filteredPapers)[i].references)
          /\ \E p \in 1..Len(psychClusters) :
                Range(Val(Val(filteredPapers)[i].references)) \cap Range(psychClusters[p].docs) # {}
          /\ ~IsNull(inferMonth(papersInfoMapGet(Val(papersInfo),
                                                  Val(filteredPapers)[i].paperId)))

\* C25 as stated: in every state in which an LLM topic is selected the reset
\* button is rendered, so that the reset action is enabled.
C25_AsStated ==
    ~IsNull(selectedLLMNode) => (~loading /\ ResetShown)

\* C25: in a state in which an LLM topic is selected the reset button is
\* rendered, and the reset action enabled, exactly when a paper of the topic with a resolvable month cites a Psychology
\* paper, and taking it clears the LLM selection, leaves the Psychology
\* selection and the theory alone, and the line chart has no series per
\* Psychology topic any more.
C25_ResetToOverall ==
    /\ ~IsNull(selectedLLMNode) =>
          ((~loading /\ ResetShown) <=> SelectedTopicHasDatedCitation)
    /\ result.fn = "handleResetLineChart" =>
          /\ ~IsNull(result.value.llm)
          /\ IsNull(selectedLLMNode)
          /\ selectedPsychNode = result.value.psych
          /\ selectedTheory = result.value.theory
          /\ IsNull(getMultiSeriesLineData)

\* the reset was taken while a Psychology topic and a theory were selected
C25_Witness ==
    /\ result.fn = "handleResetLineChart"
    /\ ~IsNull(result.value.llm)
    /\ IsNull(selectedLLMNode)
    /\ ~IsNull(selectedTheory)

-----------------------------------------------------------------------------
(* The bar chart of the selected theory *)

\* the key of the selected Psychology topic
SelectedPsychKey == ReplaceFirst(Val(selectedPsychNode), PsychPrefix)

\* the selected theory is a theory of the selected Psychology topic
TheoryOfSelectedTopic ==
    /\ ~loading
    /\ ~IsNull(selectedPsychNode)
    /\ ~IsNull(selectedTheory)
    /\ HasKey(theoryPool, SelectedPsychKey)
    /\ HasKey(Lookup(theoryPool, SelectedPsychKey).theories, Val(selectedTheory))

\* the distribution counted against the documents of one entry of the pool
DistributionAgainst(entry) ==
    SortByCitationsDesc(DistributionRows(Val(filteredPapers), theoryPaperIds(entry.docs)))

\* C26 as stated: the distribution shown for the selected theory is counted
\* against the documents of the entry that the selected Psychology topic has
\* for the theory, also when another topic has a theory of the same name.
C26_AsStated ==
    TheoryOfSelectedTopic =>
        theoryDistributionData
          = DistributionAgainst(Lookup(Lookup(theoryPool, SelectedPsychKey).theories,
                                       Val(selectedTheory)))

\* "Prospect Theory" is selected under topic "Cluster 1", whose entry cites
\* "Paper 1", and the distribution is that of the entry of topic "Cluster 0"
C26_Witness ==
    /\ TheoryOfSelectedTopic
    /\ SelectedPsychKey = ClusterKey(1)
    /\ Val(selectedTheory) = Name_Prospect
    /\ theoryDistributionData
         = DistributionAgainst(Lookup(Lookup(theoryPool, ClusterKey(0)).theories, Name_Prospect))
    /\ theoryDistributionData
         # DistributionAgainst(Lookup(Lookup(theoryPool, ClusterKey(1)).theories, Name_Prospect))

-----------------------------------------------------------------------------
(* The series per Psychology topic against the edges of the graph *)

\* the edges of the graph from LLM topic a to Psychology topic b
EdgesBetween(a, b) ==
    {i \in 1..Len(getBipartiteEdges) :
        /\ getBipartiteEdges[i].source = LLMPrefix \o a
        /\ getBipartiteEdges[i].target = PsychPrefix \o b}

\* every paper of LLM topic a that cites a paper of Psychology topic b has a
\* resolvable month
AllCitingDated(a, b) ==
    \A i \in 1..Len(Val(filteredPapers)) :
        (/\ Val(filteredPapers)[i].paperId \in DocIds(Lookup(llmClusters, a))
         /\ RefsInto(Val(filteredPapers)[i], DocIds(Lookup(psychClusters, b))) > 0)
        => ~IsNull(inferMonth(papersInfoMapGet(Val(papersInfo), Val(filteredPapers)[i].paperId)))

\* the last cumulative value of a series
LastValue(series) == series.data[Len(series.data)].citations

\* C27: a series of getMultiSeriesCitationData(A) for Psychology topic B comes
\* with exactly one edge from A to B in getBipartiteEdges; the last cumulative
\* value of the series is at most the weight of the edge, and is the weight when
\* every paper of A that cites a paper of B has a resolvable month.
C27_SeriesWithinEdge ==
    (result.fn = "getMultiSeriesCitationData" /\ HasKey(llmClusters, Val(result.arg))) =>
        \A k \in 1..Len(result.value) :
            /\ Cardinality(EdgesBetween(Val(result.arg), result.value[k].psychKey)) = 1
            /\ \A e \in EdgesBetween(Val(result.arg), result.value[k].psychKey) :
                  /\ LastValue(result.value[k]) <= getBipartiteEdges[e].weight
                  /\ AllCitingDated(Val(result.arg), result.value[k].psychKey)
                        => LastValue(result.value[k]) = getBipartiteEdges[e].weight

\* two papers of the topic cite the first Psychology topic, one has no month:
\* the series ends at 1 under an edge of weight 2; the other series, or none,
\* shows the same for the second Psychology topic
C27_Witness ==
    /\ result.fn = "getMultiSeriesCitationData"
    /\ HasKey(llmClusters, Val(result.arg))
    /\ Len(result.value) >= 1
    /\ ~AllCitingDated(Val(result.arg), result.value[1].psychKey)
    /\ \E e \in EdgesBetween(Val(result.arg), result.value[1].psychKey) :
          LastValue(result.value[1]) < getBipartiteEdges[e].weight

-----------------------------------------------------------------------------
(* The selected theory and the table it was selected in *)

\* the theories of the rows of the current table that are marked isTopThree
MarkedInTable ==
    {theoryTableData[i].theory :
        i \in {i \in 1..Len(theoryTableData) : theoryTableData[i].isTopThree}}

\* C28: a selected theory is a theory marked isTopThree in the table of the
\* selected Psychology topic, and no theory stays selected over a click on a
\* Psychology node.
C28_SelectedIsTopThree ==
    /\ ~IsNull(selectedTheory) =>
          /\ ~IsNull(selectedPsychNode)
          /\ Val(selectedTheory) \in MarkedInTable
    /\ result.fn = "onPsychNodeClick" => IsNull(selectedTheory)

\* a theory is selected in a table that also has a row that is not marked
C28_Witness ==
    /\ ~IsNull(selectedTheory)
    /\ result.fn = "onTheoryClick"
    /\ \E i \in 1..Len(theoryTableData) : ~theoryTableData[i].isTopThree

-----------------------------------------------------------------------------
(* The initial load on its own *)

\* the fetches of Promise.all settle in any order, and loadData continues in its
\* try block or in its catch block
NextLoad ==
    \/ \E f \in Range(Loaders) : FetchFulfilled(f)
    \/ \E f \in Range(Loaders) : FetchRejected(f)
    \/ LoadDataResolved
    \/ LoadDataRejected

SpecLoad == Init /\ [][NextLoad]_vars

\* every fetch settles, and the continuation of loadData runs once it can
SpecLoadFair ==
    /\ SpecLoad
    /\ \A f \in Range(Loaders) : WF_vars(FetchFulfilled(f) \/ FetchRejected(f))
    /\ WF_vars(LoadDataResolved)
    /\ WF_vars(LoadDataRejected)

\* every relation has the value it had before the load
RelationsInitial ==
    /\ llmClusters = <<>>
    /\ psychClusters = <<>>
    /\ theoryPool = <<>>
    /\ secondaryClusters = <<>>
    /\ papersInfo = Null
    /\ filteredPapers = Null
    /\ titleToPaperId = <<>>

\* C29: once a fetch of the load has failed, every relation keeps its initial
\* empty value, whichever fetches have succeeded before or succeed after it.
C29_AllOrNothing ==
    (\E f \in Range(Loaders) : fetches[f] = "rejected") => RelationsInitial

\* the catch block has run after the first fetch succeeded and a later one failed
C29_Witness ==
    /\ ~loading
    /\ fetches["loadLLMClusters"] = "fulfilled"
    /\ \E f \in Range(Loaders) : fetches[f] = "rejected"
    /\ RelationsInitial

\* C30: when every fetch settles, loading becomes false, after a success and
\* after a failure alike, and once false it is never true again.
C30_LoadingEnds ==
    /\ <>(~loading)
    /\ [][~loading => ~loading']_vars

\* loading is false after a load in which a fetch failed
C30_Witness ==
    /\ ~loading
    /\ \E f \in Range(Loaders) : fetches[f] = "rejected"
    /\ \A f \in Range(Loaders) : fetches[f] # "pending"

====
